---- MODULE Spec2Model ----
(***************************************************************************)
(* Vibha StockAlerts: the multi-provider fallback / caching facade.        *)
(*                                                                         *)
(*   server/server.js               the HTTP handlers, the cache, the      *)
(*                                  global resolver                        *)
(*   unnamed/part_000               indian-markets-api.js, "enhanced"      *)
(*                                  revision (priority + enabled filter)   *)
(*   server/indian-markets-api.js   indian-markets-api.js, "basic"         *)
(*                                  revision (fixed list of four adapters) *)
(*                                                                         *)
(* Node runs the handlers on one thread.  A handler runs without           *)
(* interruption up to its first pending upstream call (axios.get); the     *)
(* code between two settlements of upstream calls, promise continuations   *)
(* included, is one atomic step.  So the actions are: a request arrives    *)
(* (Handle...), an upstream call settles (Settle), the clock advances      *)
(* (Tick).                                                                 *)
(*                                                                         *)
(* Numbers: times are milliseconds (Date.now()); changePercent is carried  *)
(* in hundredths of a percent.  A Quote carries the fields the handlers    *)
(* read (symbol, currency, changePercent, source, mock, timestamp); the    *)
(* other descriptive fields are not carried.                               *)
(***************************************************************************)
EXTENDS Integers, Sequences, FiniteSets, TLC

VARIABLES
  now,        \* Date.now()
  istBase,    \* minute of the IST week at now = 0 (the wall clock's phase)
  env,        \* process.env: the provider credentials
  apiModule,  \* the revision of indian-markets-api.js the server imports
  cache,      \* server.js `cache`: the Map, as the sequence of its entries in iteration order
  reqs,       \* requests suspended in `await Promise.all(promises)` / `await fetch...`
  lastResp,   \* the response sent last, with the request it answers
  writer,     \* history: cache key -> the request whose handler last set it
  evicted,    \* history: the keys the last setCachedData removed and the size it left
  firstIn,    \* history: cache key -> serial number of the set that last made the key present
  nsets,      \* history: number of setCachedData calls so far
  nreq,       \* number of requests received so far
  probe,      \* the last call of an adapter or generator: its arguments and its outcome
  wa,         \* the WhatsAppService object of the browser, with its calls in flight
  sds,        \* the StockDataService object of the browser, with its calls in flight
  scope       \* the inputs and bounds of the run (fixed by Init)

vars == <<now, istBase, env, apiModule, cache, reqs, lastResp, writer,
          evicted, firstIn, nsets, nreq, probe, wa, sds, scope>>

-----------------------------------------------------------------------------
(* Program constants *)

CACHE_DURATION == 60000
LONG_CACHE_DURATION == 300000
CACHE_MAX_ENTRIES == 1000
DEFAULT_LIMIT_MARKET == 12
DEFAULT_LIMIT_TICKER == 15

INDIAN_SYMBOLS ==
  << "RELIANCE", "TCS", "HDFCBANK", "INFY", "HINDUNILVR", "ITC", "SBIN",
     "BHARTIARTL", "ASIANPAINT", "MARUTI", "ADANIGREEN", "TATASTEEL",
     "WIPRO", "LT", "HCLTECH", "ICICIBANK", "KOTAKBANK", "BAJFINANCE" >>

GLOBAL_SYMBOLS ==
  << "AAPL", "GOOGL", "MSFT", "AMZN", "TSLA", "META", "NVDA", "NFLX",
     "BRK.B", "JPM", "V", "JNJ", "WMT", "PG", "UNH", "DIS", "ADBE", "CRM" >>

YAHOO_PROXIES == << "allorigins", "cors-anywhere", "codetabs" >>

-----------------------------------------------------------------------------
(* Bounds of the exploration *)

(* A run explores the requests of its scope: scope.requests requests in all, *)
(* each one of scope.shapes, at most scope.inflight of them suspended at    *)
(* once, events at the instants scope.times (ms after the start), and       *)
(* changePercent values among scope.pcts.                                   *)

ServeRequests == 2     \* requests of a run that exercises the aggregation routes
ServeInflight == 1     \* requests suspended at once in such a run
ResolveRequests == 1   \* requests of a run that exercises the provider chains
CacheRequests == 3     \* requests of a run that exercises the cache's expiry
WarmRequests == 3      \* requests of a run that starts with a warm cache
TickerRequests == 1    \* requests of a run that exercises the unified ticker
AdapterRequests == 1   \* requests of a run in which every adapter may fail
MalformedRequests == 3 \* requests of a run with malformed query parameters
OverlapRequests == 2   \* requests of a run in which requests overlap
SearchRequests == 1    \* requests of a run on the search route
KeyRequests == 3       \* requests of a run on the keys of the search route
RefreshRequests == 2   \* requests of a run that starts with a request in flight
AlertCalls == 3        \* sendAlert calls of a run
BulkRuns == 1          \* sendBulkAlerts calls of a run
QuoteCalls == 2        \* getStockQuote and getMarketIndices calls of a run
SendCalls == 2         \* sendMessage calls of a run
RandomSteps == 4       \* steps of the grid of Math.random() and Math.sin() values
Prefill == 999         \* entries of the warm cache

-----------------------------------------------------------------------------
(* JavaScript values *)

Num(n) == [k |-> "num", v |-> n]
NaN == [k |-> "nan", v |-> 0]
Undefined == [k |-> "undef", v |-> 0]
\* new Date().toISOString(): a string, carried as the instant it spells
IsoString(t) == [k |-> "iso", v |-> t]

\* a - b on JavaScript values: ToNumber of undefined and of an ISO date string is NaN
JsMinus(a, b) ==
  IF a.k = "num" /\ b.k = "num" THEN Num(a.v - b.v) ELSE NaN

\* Math.round(x / 1000): rounds half up
RoundSeconds(x) ==
  IF x.k = "num" THEN Num((x.v + 500) \div 1000) ELSE NaN

\* obj.timestamp
TimestampOf(obj) ==
  IF "timestamp" \in DOMAIN obj THEN obj.timestamp ELSE Undefined

Range(s) == { s[i] : i \in DOMAIN s }

\* Array.prototype.slice(0, n) for an integer n
Slice0(s, n) ==
  LET end == IF n < 0 THEN (IF Len(s) + n < 0 THEN 0 ELSE Len(s) + n)
             ELSE IF n > Len(s) THEN Len(s) ELSE n
  IN  SubSeq(s, 1, end)

-----------------------------------------------------------------------------
(* Query parameters.  A query string value is the sequence of its          *)
(* characters; a parameter the request does not carry is Absent (its       *)
(* String() conversion, "undefined", holds no digit and differs from       *)
(* "false").                                                               *)

Absent == << "undefined" >>
Str_false == << "f", "a", "l", "s", "e" >>

IsDigit(c) == c \in {"0", "1", "2", "3", "4", "5", "6", "7", "8", "9"}

DigitVal(c) ==
  CASE c = "0" -> 0 [] c = "1" -> 1 [] c = "2" -> 2 [] c = "3" -> 3
    [] c = "4" -> 4 [] c = "5" -> 5 [] c = "6" -> 6 [] c = "7" -> 7
    [] c = "8" -> 8 [] c = "9" -> 9

\* the value of the longest prefix of digits of s from position i on, given the
\* value acc of the n digits read so far: <<value, digits read>>
RECURSIVE DigitsFrom(_, _, _, _)
DigitsFrom(s, i, acc, n) ==
  IF i <= Len(s) /\ IsDigit(s[i])
    THEN DigitsFrom(s, i + 1, acc * 10 + DigitVal(s[i]), n + 1)
    ELSE << acc, n >>

RECURSIVE SkipSpaces(_, _)
SkipSpaces(s, i) ==
  IF i <= Len(s) /\ s[i] = " " THEN SkipSpaces(s, i + 1) ELSE i

\* parseInt(s): leading blanks, an optional sign, then the longest run of decimal
\* digits; NaN when there is none (radix prefixes are not in the inputs)
ParseInt(s) ==
  LET i    == SkipSpaces(s, 1)
      neg  == i <= Len(s) /\ s[i] = "-"
      j    == IF i <= Len(s) /\ s[i] \in {"-", "+"} THEN i + 1 ELSE i
      d    == DigitsFrom(s, j, 0, 0)
  IN  IF d[2] = 0 THEN NaN
      ELSE Num(IF neg THEN 0 - d[1] ELSE d[1])

\* parseInt(req.query.limit) || dflt : NaN and 0 are falsy
LimitOf(raw, dflt) ==
  LET p == ParseInt(raw)
  IN  IF p.k = "nan" \/ p.v = 0 THEN dflt ELSE p.v

\* req.query.indian !== 'false'
IncludeFlag(raw) == raw # Str_false

\* Math.ceil(limit * 0.6) and Math.floor(limit * 0.4)
CeilSixTenths(limit) == 0 - ((0 - 6 * limit) \div 10)
FloorFourTenths(limit) == (4 * limit) \div 10

-----------------------------------------------------------------------------
(* The cache: server.js 33-67 *)

Null == [k |-> "null", v |-> 0]

\* position of key in the Map, 0 when it has none
MapIndex(c, key) ==
  IF \E i \in DOMAIN c : c[i].key = key
    THEN CHOOSE i \in DOMAIN c : c[i].key = key
    ELSE 0

MapHas(c, key) == MapIndex(c, key) # 0

\* Map.prototype.delete
MapDelete(c, key) ==
  LET i == MapIndex(c, key)
  IN  IF i = 0 THEN c ELSE SubSeq(c, 1, i - 1) \o SubSeq(c, i + 1, Len(c))

\* Map.prototype.set: a key already present keeps its place in the iteration order
MapSet(c, key, e) ==
  LET i == MapIndex(c, key)
  IN  IF i = 0 THEN Append(c, e) ELSE [c EXCEPT ![i] = e]

MapKeys(c) == { c[i].key : i \in DOMAIN c }

(* Variants of the cache operations, each differing from the code in one    *)
(* point; the properties below tell the code from them.                     *)

\* never finds an entry
getCachedData_never(c, key, t) == [value |-> Null, cache |-> MapDelete(c, key)]

\* `<=` for `<`: an entry as old as its ttl still counts
getCachedData_inclusive(c, key, t) ==
  LET i == MapIndex(c, key)
  IN  IF i # 0 /\ t - c[i].timestamp <= c[i].ttl
        THEN [value |-> c[i].data, cache |-> c]
        ELSE [value |-> Null, cache |-> MapDelete(c, key)]

\* without the cache.delete(key) of line 55
getCachedData_readOnly(c, key, t) ==
  LET i == MapIndex(c, key)
  IN  IF i # 0 /\ t - c[i].timestamp < c[i].ttl
        THEN [value |-> c[i].data, cache |-> c]
        ELSE [value |-> Null, cache |-> c]

\* removes the entry inserted last on overflow
setCachedData_newest(c, key, data, ttl, t) ==
  LET c1 == MapSet(c, key, [key |-> key, data |-> data, timestamp |-> t, ttl |-> ttl])
  IN  IF Len(c1) > CACHE_MAX_ENTRIES
        THEN MapDelete(c1, c1[Len(c1)].key)
        ELSE c1

\* a set on a present key moves the key to the end of the iteration order
setCachedData_moveToEnd(c, key, data, ttl, t) ==
  LET c1 == Append(MapDelete(c, key),
                   [key |-> key, data |-> data, timestamp |-> t, ttl |-> ttl])
  IN  IF Len(c1) > CACHE_MAX_ENTRIES
        THEN MapDelete(c1, c1[1].key)
        ELSE c1

\* keeps the entry a key already has
setCachedData_keepFirst(c, key, data, ttl, t) ==
  IF MapHas(c, key) THEN c
  ELSE LET c1 == MapSet(c, key, [key |-> key, data |-> data, timestamp |-> t, ttl |-> ttl])
       IN  IF Len(c1) > CACHE_MAX_ENTRIES
             THEN MapDelete(c1, c1[1].key)
             ELSE c1

\* every entry lives as long as a search result
getCachedData_longLived(c, key, t) ==
  LET i == MapIndex(c, key)
  IN  IF i # 0 /\ t - c[i].timestamp < LONG_CACHE_DURATION
        THEN [value |-> c[i].data, cache |-> c]
        ELSE [value |-> Null, cache |-> MapDelete(c, key)]

\* getCachedData(key) at time t: the value returned and the Map afterwards
getCachedData(c, key, t) ==
  LET i == MapIndex(c, key)
  IN  IF i # 0 /\ t - c[i].timestamp < c[i].ttl
        THEN [value |-> c[i].data, cache |-> c]
        ELSE [value |-> Null, cache |-> MapDelete(c, key)]

\* setCachedData(key, data, ttl) at time t: the Map afterwards
setCachedData(c, key, data, ttl, t) ==
  LET c1 == MapSet(c, key, [key |-> key, data |-> data, timestamp |-> t, ttl |-> ttl])
  IN  IF Len(c1) > CACHE_MAX_ENTRIES
        THEN MapDelete(c1, c1[1].key)      \* cache.keys().next().value
        ELSE c1

-----------------------------------------------------------------------------
(* Credentials.  env.X is process.env.X: "" when unset, "demo" as written   *)
(* into .env by setup.sh, or a real key.                                   *)

Credentials == {"", "demo", "live-key"}

\* process.env.X || dflt
OrDefault(v, dflt) == IF v = "" THEN dflt ELSE v

\* part_000 10-23
FMP_API_KEY_enhanced == OrDefault(env.FMP, "demo")
TWELVE_DATA_API_KEY_enhanced == OrDefault(env.TWELVE, "demo")
ALPHA_VANTAGE_API_KEY_enhanced == OrDefault(env.ALPHA, "demo")

\* server/indian-markets-api.js 13-21
POLYGON_API_KEY_basic == OrDefault(env.POLYGON, "your_free_polygon_key")
FMP_API_KEY_basic == OrDefault(env.FMP, "your_free_fmp_key")
ALPHA_VANTAGE_API_KEY_basic == env.ALPHA

\* server.js 30
ALPHA_VANTAGE_API_KEY == OrDefault(env.ALPHA, "demo")

\* KEY && KEY !== 'demo'
KeyConfigured(key) == key # "" /\ key # "demo"

-----------------------------------------------------------------------------
(* Quotes *)

\* the source tag each adapter writes
SourceTag(chain, m, a) ==
  IF chain = "global" THEN "Alpha_Vantage_Global"
  ELSE IF m = "enhanced"
    THEN CASE a = "FMP" -> "Financial_Modeling_Prep"
           [] a = "TWELVE" -> "Twelve_Data"
           [] a = "ALPHA" -> "Alpha_Vantage"
           [] a = "YAHOO" -> "Yahoo_Finance_Proxy"
    ELSE CASE a = "YAHOO" -> "Yahoo_Finance_Free"
           [] a = "FMP" -> "FMP_Free"
           [] a = "POLYGON" -> "Polygon_Free"
           [] a = "ALPHA" -> "Alpha_Vantage_Indian"

\* the Quote an adapter builds from a usable upstream payload
AdapterQuote(chain, m, a, symbol, pct, t) ==
  [ symbol |-> symbol,
    currency |-> IF chain = "global" THEN "USD" ELSE "INR",
    changePercent |-> pct,
    timestamp |-> IsoString(t),
    source |-> SourceTag(chain, m, a) ]

\* part_000 282-314
generateEnhancedMockData(symbol, pct, t) ==
  [ symbol |-> symbol, currency |-> "INR", changePercent |-> pct,
    timestamp |-> IsoString(t), source |-> "Enhanced_Mock_Data", mock |-> TRUE ]

\* server/indian-markets-api.js 271-294
generateMockIndianData(symbol, pct, t) ==
  [ symbol |-> symbol, currency |-> "INR", changePercent |-> pct,
    timestamp |-> IsoString(t), source |-> "Mock_Data_Fallback" ]

\* server.js 808-839
generateGlobalMockData(symbol, pct, t) ==
  [ symbol |-> symbol, currency |-> "USD", changePercent |-> pct,
    timestamp |-> IsoString(t), source |-> "Mock_Global_Data", mock |-> TRUE ]

\* s.mock as a condition
IsMock(s) == "mock" \in DOMAIN s /\ s.mock

NoQuote == [symbol |-> "", currency |-> "", changePercent |-> 0,
            timestamp |-> Undefined, source |-> "none"]

-----------------------------------------------------------------------------
(* The provider chains *)

\* part_000 226-251: the providers array of fetchIndianStockData
ProvidersEnhanced ==
  << [name |-> "FMP", priority |-> 1, enabled |-> KeyConfigured(FMP_API_KEY_enhanced)],
     [name |-> "TWELVE", priority |-> 2, enabled |-> KeyConfigured(TWELVE_DATA_API_KEY_enhanced)],
     [name |-> "ALPHA", priority |-> 3, enabled |-> KeyConfigured(ALPHA_VANTAGE_API_KEY_enhanced)],
     [name |-> "YAHOO", priority |-> 4, enabled |-> TRUE] >>

\* server/indian-markets-api.js 242-247: no priority field, no enabled field; the
\* array order is the trial order
ProvidersBasic ==
  << [name |-> "YAHOO", priority |-> 1, enabled |-> TRUE],
     [name |-> "FMP", priority |-> 2, enabled |-> TRUE],
     [name |-> "POLYGON", priority |-> 3, enabled |-> TRUE],
     [name |-> "ALPHA", priority |-> 4, enabled |-> TRUE] >>

\* server.js 757-771: the global resolver has one inline adapter, reached only
\* past the credential test
ProvidersGlobal ==
  << [name |-> "ALPHA_GLOBAL", priority |-> 1,
      enabled |-> KeyConfigured(ALPHA_VANTAGE_API_KEY)] >>

\* Array.prototype.sort((a, b) => a.priority - b.priority): stable
RECURSIVE InsertByPriority(_, _)
InsertByPriority(p, s) ==
  IF s = << >> THEN << p >>
  ELSE IF p.priority < Head(s).priority THEN << p >> \o s
  ELSE << Head(s) >> \o InsertByPriority(p, Tail(s))

\* a variant: descending priority
RECURSIVE SortByPriority_descending(_)
SortByPriority_descending(s) ==
  IF s = << >> THEN << >>
  ELSE Append(SortByPriority_descending(Tail(s)), Head(s))

RECURSIVE SortByPriority(_)
SortByPriority(s) ==
  IF s = << >> THEN << >>
  ELSE InsertByPriority(s[Len(s)], SortByPriority(SubSeq(s, 1, Len(s) - 1)))

IsEnabled(p) == p.enabled

\* providers.filter(p => p.enabled).sort(...), as the sequence of adapter names
enabledProviders(chain, m) ==
  LET ps == IF chain = "global" THEN ProvidersGlobal
            ELSE IF m = "enhanced" THEN ProvidersEnhanced ELSE ProvidersBasic
      en == SortByPriority(SelectSeq(ps, IsEnabled))
  IN  [i \in DOMAIN en |-> en[i].name]

\* the adapters of the basic revision test their credential themselves and throw
\* before any request: server/indian-markets-api.js 86, 142, 191
ThrowsBeforeRequest(chain, m, a) ==
  /\ chain = "indian"
  /\ m = "basic"
  /\ \/ a = "POLYGON" /\ (POLYGON_API_KEY_basic = "" \/ POLYGON_API_KEY_basic = "your_free_polygon_key")
     \/ a = "FMP" /\ (FMP_API_KEY_basic = "" \/ FMP_API_KEY_basic = "your_free_fmp_key")
     \/ a = "ALPHA" /\ ALPHA_VANTAGE_API_KEY_basic = ""

\* upstream requests one adapter call may issue: part_000 38 tries every proxy
Attempts(chain, m, a) ==
  IF chain = "indian" /\ m = "enhanced" /\ a = "YAHOO" THEN Len(YAHOO_PROXIES) ELSE 1

\* variant: the chain has no fallback and returns nothing when every adapter failed
MockQuote_none(chain, m, symbol, pct, t) == NoQuote

\* the synthetic quote of a chain
MockQuote(chain, m, symbol, pct, t) ==
  IF chain = "global" THEN generateGlobalMockData(symbol, pct, t)
  ELSE IF m = "enhanced" THEN generateEnhancedMockData(symbol, pct, t)
  ELSE generateMockIndianData(symbol, pct, t)

(* One resolve call (fetchIndianStockData / fetchGlobalStockData) is a task:  *)
(*   providers  the trial sequence                                         *)
(*   idx        position of the adapter tried now                          *)
(*   sub        the request of that adapter now pending (Yahoo proxies)    *)
(*   st         "await": suspended on an upstream request; "done"          *)
(*   result     the Quote returned                                         *)
(*   calls      history: the adapters invoked, in order, with their fate   *)
(*   http       history: the adapters an upstream request was issued for   *)
(*   produced   history: the Quotes the adapters returned                  *)

NewTask(chain, m, symbol) ==
  [ symbol |-> symbol, chain |-> chain, providers |-> enabledProviders(chain, m),
    idx |-> 1, sub |-> 0, st |-> "start", result |-> NoQuote,
    calls |-> << >>, http |-> << >>, produced |-> << >> ]

SetLastCall(calls, out) == [calls EXCEPT ![Len(calls)].out = out]

\* the loop `for (const provider of enabledProviders)` from position task.idx,
\* run up to its first pending request or to the fallback after the loop
RECURSIVE Trial(_, _, _, _)
Trial(task, m, rnd, t) ==
  IF task.idx > Len(task.providers)
    THEN [task EXCEPT !.st = "done",
                      !.result = MockQuote(task.chain, m, task.symbol, rnd, t)]
  ELSE LET a == task.providers[task.idx]
       IN  IF ThrowsBeforeRequest(task.chain, m, a)
             THEN Trial([task EXCEPT !.idx = @ + 1,
                                     !.calls = Append(@, [name |-> a, out |-> "failed"])],
                        m, rnd, t)
             ELSE [task EXCEPT !.st = "await", !.sub = 1,
                               !.calls = Append(@, [name |-> a, out |-> "pending"]),
                               !.http = Append(@, a)]

\* fetchIndianStockData(symbol) / fetchGlobalStockData(symbol), up to the first await
StartResolve(chain, m, symbol, rnd, t) == Trial(NewTask(chain, m, symbol), m, rnd, t)

\* a variant: the loop goes on after an adapter has returned its quote
SettleTask_goesOn(task, out, pct, m, rnd, t) ==
  LET a == task.providers[task.idx]
      quote == AdapterQuote(task.chain, m, a, task.symbol, pct, t)
  IN  IF out = "ok"
        THEN Trial([task EXCEPT !.idx = @ + 1, !.sub = 0,
                                !.result = quote,
                                !.produced = Append(@, quote),
                                !.calls = SetLastCall(@, "ok")],
                   m, rnd, t)
      ELSE IF task.sub < Attempts(task.chain, m, a)
        THEN [task EXCEPT !.sub = @ + 1, !.http = Append(@, a)]
      ELSE Trial([task EXCEPT !.idx = @ + 1, !.sub = 0,
                              !.calls = SetLastCall(@, "failed")],
                 m, rnd, t)

\* a variant: an adapter whose last attempt failed starts over with its first
SettleTask_retries(task, out, pct, m, rnd, t) ==
  LET a == task.providers[task.idx]
      quote == AdapterQuote(task.chain, m, a, task.symbol, pct, t)
  IN  IF out = "ok"
        THEN [task EXCEPT !.st = "done", !.sub = 0,
                          !.result = quote,
                          !.produced = Append(@, quote),
                          !.calls = SetLastCall(@, "ok")]
      ELSE IF task.sub < Attempts(task.chain, m, a)
        THEN [task EXCEPT !.sub = @ + 1]
      ELSE [task EXCEPT !.sub = 1]

\* the pending request of a task settles: out = "ok" (a usable payload, giving
\* changePercent pct) or "fail" (timeout, network or HTTP error, unusable payload)
SettleTask(task, out, pct, m, rnd, t) ==
  LET a == task.providers[task.idx]
      quote == AdapterQuote(task.chain, m, a, task.symbol, pct, t)
  IN  IF out = "ok"
        THEN [task EXCEPT !.st = "done", !.sub = 0,
                          !.result = quote,
                          !.produced = Append(@, quote),
                          !.calls = SetLastCall(@, "ok")]
      ELSE IF task.sub < Attempts(task.chain, m, a)
        THEN [task EXCEPT !.sub = @ + 1, !.http = Append(@, a)]
      ELSE Trial([task EXCEPT !.idx = @ + 1, !.sub = 0,
                              !.calls = SetLastCall(@, "failed")],
                 m, rnd, t)

-----------------------------------------------------------------------------
(* Market hours: server.js 845-856.  The IST wall clock is istBase minutes   *)
(* into the week (Sunday 00:00 = 0) when now = 0.                          *)

MinutesPerDay == 24 * 60
MinutesPerWeek == 7 * MinutesPerDay
MsPerMinute == 60 * 1000

IstMinuteOfWeek(t) == (istBase + t \div MsPerMinute) % MinutesPerWeek

isIndianMarketOpen(t) ==
  LET m      == IstMinuteOfWeek(t)
      day    == m \div MinutesPerDay
      hour   == (m % MinutesPerDay) \div 60
      minute == m % 60
      isWeekday == day >= 1 /\ day <= 5
      isMarketHours == /\ (hour > 9 \/ (hour = 9 /\ minute >= 15))
                       /\ (hour < 15 \/ (hour = 15 /\ minute <= 30))
  IN  isWeekday /\ isMarketHours

-----------------------------------------------------------------------------
(* Building the responses *)

Abs(x) == IF x < 0 THEN 0 - x ELSE x

\* a variant of the comparator: by changePercent with its sign
Compare_signed(a, b, marketFirst) ==
  IF marketFirst /\ a.currency = "INR" /\ b.currency = "USD" THEN -1
  ELSE IF marketFirst /\ a.currency = "USD" /\ b.currency = "INR" THEN 1
  ELSE b.changePercent - a.changePercent

\* the comparator of allStocks.sort (server.js 323-332); marketFirst is
\* isIndianMarketOpen() there, and FALSE for the single-market routes, whose
\* comparator (118, 204) is the last line alone
Compare(a, b, marketFirst) ==
  IF marketFirst /\ a.currency = "INR" /\ b.currency = "USD" THEN -1
  ELSE IF marketFirst /\ a.currency = "USD" /\ b.currency = "INR" THEN 1
  ELSE Abs(b.changePercent) - Abs(a.changePercent)

\* Array.prototype.sort is stable: x goes after every element it does not precede
RECURSIVE InsertSorted(_, _, _)
InsertSorted(x, s, marketFirst) ==
  IF s = << >> THEN << x >>
  ELSE IF Compare(x, Head(s), marketFirst) < 0 THEN << x >> \o s
  ELSE << Head(s) >> \o InsertSorted(x, Tail(s), marketFirst)

RECURSIVE SortQuotes(_, _)
SortQuotes(s, marketFirst) ==
  IF s = << >> THEN << >>
  ELSE InsertSorted(s[Len(s)], SortQuotes(SubSeq(s, 1, Len(s) - 1), marketFirst),
                    marketFirst)

\* [...new Set(xs)]: the distinct values in order of first occurrence
RECURSIVE Distinct(_)
Distinct(xs) ==
  IF xs = << >> THEN << >>
  ELSE LET d == Distinct(SubSeq(xs, 1, Len(xs) - 1))
           x == xs[Len(xs)]
       IN  IF x \in Range(d) THEN d ELSE Append(d, x)

IsINR(s) == s.currency = "INR"
IsUSD(s) == s.currency = "USD"

\* xs.filter(s => ...).length
CountMock(xs) == Cardinality({ i \in DOMAIN xs : IsMock(xs[i]) })
CountINR(xs) == Cardinality({ i \in DOMAIN xs : IsINR(xs[i]) })
CountUSD(xs) == Cardinality({ i \in DOMAIN xs : IsUSD(xs[i]) })

\* if (result): a Quote is truthy, a call that produced none is left out
IsQuote(result) == result # NoQuote

\* x put into s, which is in order of completion (the time of the quote)
RECURSIVE InsertByTime(_, _)
InsertByTime(x, s) ==
  IF s = << >> THEN << x >>
  ELSE IF x.timestamp.v < Head(s).timestamp.v THEN << x >> \o s
  ELSE << Head(s) >> \o InsertByTime(x, Tail(s))

RECURSIVE ByCompletion(_)
ByCompletion(s) ==
  IF s = << >> THEN << >>
  ELSE InsertByTime(s[Len(s)], ByCompletion(SubSeq(s, 1, Len(s) - 1)))

\* variant: each call pushes its quote as it completes
Results_byCompletion(tasks) ==
  ByCompletion(SelectSeq([i \in DOMAIN tasks |-> tasks[i].result], IsQuote))

\* the quotes of the settled resolve calls, in the order of the promises
\* (results.forEach(result => { if (result) allStocks.push(result) }))
Results(tasks) == SelectSeq([i \in DOMAIN tasks |-> tasks[i].result], IsQuote)

Sources(data) == Distinct([i \in DOMAIN data |-> data[i].source])

\* server.js 117-138 and 203-224: the response of /api/stocks/indian and
\* /api/stocks/global (errors: undefined is dropped by res.json)
MarketBody(tasks, errors, market, t) ==
  LET data == SortQuotes(Results(tasks), FALSE)
  IN  [ summary |-> [ total |-> Len(data),
                      market |-> market,
                      sources |-> Sources(data),
                      errors |-> Len(errors),
                      mockData |-> CountMock(data),
                      cached |-> FALSE,
                      timestamp |-> Num(t) ],
        data |-> data ]

\* variant: the summary counts the quotes before the truncation to limit
TickerBody_beforeTruncation(tasks, errors, limit, t) ==
  LET allStocks == SortQuotes(Results(tasks), isIndianMarketOpen(t))
  IN  [ summary |-> [ total |-> Len(allStocks),
                      indian |-> CountINR(allStocks),
                      global |-> CountUSD(allStocks),
                      sources |-> Sources(allStocks),
                      errors |-> Len(errors),
                      mockData |-> CountMock(allStocks),
                      cached |-> FALSE,
                      timestamp |-> Num(t),
                      marketStatus |-> [indian |-> isIndianMarketOpen(t)] ],
        data |-> Slice0(allStocks, limit) ]

\* server.js 322-356: the response of /api/stocks/ticker
TickerBody(tasks, errors, limit, t) ==
  LET allStocks == SortQuotes(Results(tasks), isIndianMarketOpen(t))
      finalData == Slice0(allStocks, limit)
  IN  [ summary |-> [ total |-> Len(finalData),
                      indian |-> CountINR(finalData),
                      global |-> CountUSD(finalData),
                      sources |-> Sources(finalData),
                      errors |-> Len(errors),
                      mockData |-> CountMock(finalData),
                      cached |-> FALSE,
                      timestamp |-> Num(t),
                      marketStatus |-> [indian |-> isIndianMarketOpen(t)] ],
        data |-> finalData ]

\* calculateTrend: server.js 913-919 (changePercent in hundredths)
calculateTrend(changePercent) ==
  IF changePercent > 300 THEN "Strong Bullish"
  ELSE IF changePercent > 100 THEN "Bullish"
  ELSE IF changePercent < -300 THEN "Strong Bearish"
  ELSE IF changePercent < -100 THEN "Bearish"
  ELSE "Neutral"

\* server.js 406-416: the Quote with its analysis and fetchedAt
DetailBody(stockData, t) ==
  [analysis |-> [trend |-> calculateTrend(stockData.changePercent)],
   fetchedAt |-> IsoString(t)] @@ stockData

\* { ...cachedData, cached: true, cacheAge: Math.round((Date.now() - cachedData.timestamp) / 1000) }
\* server.js 82-86, 168-172, 385-389
AnnotateTop(cachedData, t) ==
  [cached |-> TRUE,
   cacheAge |-> RoundSeconds(JsMinus(Num(t), TimestampOf(cachedData)))] @@ cachedData

\* server.js 265-272: the annotation goes into the summary
AnnotateSummary(cachedData, t) ==
  [summary |-> [cached |-> TRUE,
                cacheAge |-> RoundSeconds(JsMinus(Num(t), TimestampOf(cachedData.summary)))]
               @@ cachedData.summary]
  @@ cachedData

-----------------------------------------------------------------------------
(* Text.  Where the code looks into a string (includes, toLowerCase) the    *)
(* string is the sequence of its characters.                               *)

UpperCase == << "A", "B", "C", "D", "E", "F", "G", "H", "I", "J", "K", "L", "M",
               "N", "O", "P", "Q", "R", "S", "T", "U", "V", "W", "X", "Y", "Z" >>
LowerCase == << "a", "b", "c", "d", "e", "f", "g", "h", "i", "j", "k", "l", "m",
               "n", "o", "p", "q", "r", "s", "t", "u", "v", "w", "x", "y", "z" >>

LowerChar(c) ==
  IF \E i \in DOMAIN UpperCase : UpperCase[i] = c
    THEN LowerCase[CHOOSE i \in DOMAIN UpperCase : UpperCase[i] = c]
    ELSE c

\* String.prototype.toLowerCase
toLowerCase(s) == [i \in DOMAIN s |-> LowerChar(s[i])]

\* String.prototype.includes
includes(s, q) ==
  \E i \in 1..(Len(s) - Len(q) + 1) : SubSeq(s, i, i + Len(q) - 1) = q

\* the string of a sequence of characters
RECURSIVE Join(_)
Join(s) == IF s = << >> THEN "" ELSE Join(SubSeq(s, 1, Len(s) - 1)) \o s[Len(s)]

\* the characters of each symbol of INDIAN_SYMBOLS and GLOBAL_SYMBOLS
SymbolText(symbol) ==
  CASE symbol = "RELIANCE" -> << "R", "E", "L", "I", "A", "N", "C", "E" >>
    [] symbol = "TCS" -> << "T", "C", "S" >>
    [] symbol = "HDFCBANK" -> << "H", "D", "F", "C", "B", "A", "N", "K" >>
    [] symbol = "INFY" -> << "I", "N", "F", "Y" >>
    [] symbol = "HINDUNILVR" -> << "H", "I", "N", "D", "U", "N", "I", "L", "V", "R" >>
    [] symbol = "ITC" -> << "I", "T", "C" >>
    [] symbol = "SBIN" -> << "S", "B", "I", "N" >>
    [] symbol = "BHARTIARTL" -> << "B", "H", "A", "R", "T", "I", "A", "R", "T", "L" >>
    [] symbol = "ASIANPAINT" -> << "A", "S", "I", "A", "N", "P", "A", "I", "N", "T" >>
    [] symbol = "MARUTI" -> << "M", "A", "R", "U", "T", "I" >>
    [] symbol = "ADANIGREEN" -> << "A", "D", "A", "N", "I", "G", "R", "E", "E", "N" >>
    [] symbol = "TATASTEEL" -> << "T", "A", "T", "A", "S", "T", "E", "E", "L" >>
    [] symbol = "WIPRO" -> << "W", "I", "P", "R", "O" >>
    [] symbol = "LT" -> << "L", "T" >>
    [] symbol = "HCLTECH" -> << "H", "C", "L", "T", "E", "C", "H" >>
    [] symbol = "ICICIBANK" -> << "I", "C", "I", "C", "I", "B", "A", "N", "K" >>
    [] symbol = "KOTAKBANK" -> << "K", "O", "T", "A", "K", "B", "A", "N", "K" >>
    [] symbol = "BAJFINANCE" -> << "B", "A", "J", "F", "I", "N", "A", "N", "C", "E" >>
    [] symbol = "AAPL" -> << "A", "A", "P", "L" >>
    [] symbol = "GOOGL" -> << "G", "O", "O", "G", "L" >>
    [] symbol = "MSFT" -> << "M", "S", "F", "T" >>
    [] symbol = "AMZN" -> << "A", "M", "Z", "N" >>
    [] symbol = "TSLA" -> << "T", "S", "L", "A" >>
    [] symbol = "META" -> << "M", "E", "T", "A" >>
    [] symbol = "NVDA" -> << "N", "V", "D", "A" >>
    [] symbol = "NFLX" -> << "N", "F", "L", "X" >>
    [] symbol = "BRK.B" -> << "B", "R", "K", ".", "B" >>
    [] symbol = "JPM" -> << "J", "P", "M" >>
    [] symbol = "V" -> << "V" >>
    [] symbol = "JNJ" -> << "J", "N", "J" >>
    [] symbol = "WMT" -> << "W", "M", "T" >>
    [] symbol = "PG" -> << "P", "G" >>
    [] symbol = "UNH" -> << "U", "N", "H" >>
    [] symbol = "DIS" -> << "D", "I", "S" >>
    [] symbol = "ADBE" -> << "A", "D", "B", "E" >>
    [] symbol = "CRM" -> << "C", "R", "M" >>

\* getIndianCompanyName: server.js 973-995
getIndianCompanyName(symbol) ==
  CASE symbol = "RELIANCE" -> << "R", "e", "l", "i", "a", "n", "c", "e", " ", "I", "n", "d", "u", "s", "t", "r", "i", "e", "s", " ", "L", "t", "d" >>
    [] symbol = "TCS" -> << "T", "a", "t", "a", " ", "C", "o", "n", "s", "u", "l", "t", "a", "n", "c", "y", " ", "S", "e", "r", "v", "i", "c", "e", "s" >>
    [] symbol = "HDFCBANK" -> << "H", "D", "F", "C", " ", "B", "a", "n", "k", " ", "L", "i", "m", "i", "t", "e", "d" >>
    [] symbol = "INFY" -> << "I", "n", "f", "o", "s", "y", "s", " ", "L", "i", "m", "i", "t", "e", "d" >>
    [] symbol = "HINDUNILVR" -> << "H", "i", "n", "d", "u", "s", "t", "a", "n", " ", "U", "n", "i", "l", "e", "v", "e", "r", " ", "L", "t", "d" >>
    [] symbol = "ITC" -> << "I", "T", "C", " ", "L", "i", "m", "i", "t", "e", "d" >>
    [] symbol = "SBIN" -> << "S", "t", "a", "t", "e", " ", "B", "a", "n", "k", " ", "o", "f", " ", "I", "n", "d", "i", "a" >>
    [] symbol = "BHARTIARTL" -> << "B", "h", "a", "r", "t", "i", " ", "A", "i", "r", "t", "e", "l", " ", "L", "i", "m", "i", "t", "e", "d" >>
    [] symbol = "ASIANPAINT" -> << "A", "s", "i", "a", "n", " ", "P", "a", "i", "n", "t", "s", " ", "L", "i", "m", "i", "t", "e", "d" >>
    [] symbol = "MARUTI" -> << "M", "a", "r", "u", "t", "i", " ", "S", "u", "z", "u", "k", "i", " ", "I", "n", "d", "i", "a", " ", "L", "t", "d" >>
    [] symbol = "ADANIGREEN" -> << "A", "d", "a", "n", "i", " ", "G", "r", "e", "e", "n", " ", "E", "n", "e", "r", "g", "y", " ", "L", "t", "d" >>
    [] symbol = "TATASTEEL" -> << "T", "a", "t", "a", " ", "S", "t", "e", "e", "l", " ", "L", "i", "m", "i", "t", "e", "d" >>
    [] symbol = "WIPRO" -> << "W", "i", "p", "r", "o", " ", "L", "i", "m", "i", "t", "e", "d" >>
    [] symbol = "LT" -> << "L", "a", "r", "s", "e", "n", " ", "&", " ", "T", "o", "u", "b", "r", "o", " ", "L", "i", "m", "i", "t", "e", "d" >>
    [] symbol = "HCLTECH" -> << "H", "C", "L", " ", "T", "e", "c", "h", "n", "o", "l", "o", "g", "i", "e", "s", " ", "L", "i", "m", "i", "t", "e", "d" >>
    [] symbol = "ICICIBANK" -> << "I", "C", "I", "C", "I", " ", "B", "a", "n", "k", " ", "L", "i", "m", "i", "t", "e", "d" >>
    [] symbol = "KOTAKBANK" -> << "K", "o", "t", "a", "k", " ", "M", "a", "h", "i", "n", "d", "r", "a", " ", "B", "a", "n", "k" >>
    [] symbol = "BAJFINANCE" -> << "B", "a", "j", "a", "j", " ", "F", "i", "n", "a", "n", "c", "e", " ", "L", "i", "m", "i", "t", "e", "d" >>

\* getGlobalCompanyName: server.js 866-887
getGlobalCompanyName(symbol) ==
  CASE symbol = "AAPL" -> << "A", "p", "p", "l", "e", " ", "I", "n", "c", "." >>
    [] symbol = "GOOGL" -> << "A", "l", "p", "h", "a", "b", "e", "t", " ", "I", "n", "c", "." >>
    [] symbol = "MSFT" -> << "M", "i", "c", "r", "o", "s", "o", "f", "t", " ", "C", "o", "r", "p", "o", "r", "a", "t", "i", "o", "n" >>
    [] symbol = "AMZN" -> << "A", "m", "a", "z", "o", "n", ".", "c", "o", "m", " ", "I", "n", "c", "." >>
    [] symbol = "TSLA" -> << "T", "e", "s", "l", "a", " ", "I", "n", "c", "." >>
    [] symbol = "META" -> << "M", "e", "t", "a", " ", "P", "l", "a", "t", "f", "o", "r", "m", "s", " ", "I", "n", "c", "." >>
    [] symbol = "NVDA" -> << "N", "V", "I", "D", "I", "A", " ", "C", "o", "r", "p", "o", "r", "a", "t", "i", "o", "n" >>
    [] symbol = "NFLX" -> << "N", "e", "t", "f", "l", "i", "x", " ", "I", "n", "c", "." >>
    [] symbol = "BRK.B" -> << "B", "e", "r", "k", "s", "h", "i", "r", "e", " ", "H", "a", "t", "h", "a", "w", "a", "y", " ", "I", "n", "c", "." >>
    [] symbol = "JPM" -> << "J", "P", "M", "o", "r", "g", "a", "n", " ", "C", "h", "a", "s", "e", " ", "&", " ", "C", "o", "." >>
    [] symbol = "V" -> << "V", "i", "s", "a", " ", "I", "n", "c", "." >>
    [] symbol = "JNJ" -> << "J", "o", "h", "n", "s", "o", "n", " ", "&", " ", "J", "o", "h", "n", "s", "o", "n" >>
    [] symbol = "WMT" -> << "W", "a", "l", "m", "a", "r", "t", " ", "I", "n", "c", "." >>
    [] symbol = "PG" -> << "P", "r", "o", "c", "t", "e", "r", " ", "&", " ", "G", "a", "m", "b", "l", "e", " ", "C", "o", "." >>
    [] symbol = "UNH" -> << "U", "n", "i", "t", "e", "d", "H", "e", "a", "l", "t", "h", " ", "G", "r", "o", "u", "p", " ", "I", "n", "c", "." >>
    [] symbol = "DIS" -> << "T", "h", "e", " ", "W", "a", "l", "t", " ", "D", "i", "s", "n", "e", "y", " ", "C", "o", "m", "p", "a", "n", "y" >>
    [] symbol = "ADBE" -> << "A", "d", "o", "b", "e", " ", "I", "n", "c", "." >>
    [] symbol = "CRM" -> << "S", "a", "l", "e", "s", "f", "o", "r", "c", "e", " ", "I", "n", "c", "." >>

\* getCompanyName: server.js 896-900
getCompanyName(symbol) ==
  IF symbol \in Range(INDIAN_SYMBOLS)
    THEN getIndianCompanyName(symbol)
    ELSE getGlobalCompanyName(symbol)

\* variant: the market filter is not applied
SearchResults_allMarkets(query, marketFilter) ==
  LET searchSymbols == INDIAN_SYMBOLS \o GLOBAL_SYMBOLS
      Matches(symbol) ==
        \/ includes(toLowerCase(SymbolText(symbol)), toLowerCase(query))
        \/ includes(toLowerCase(getCompanyName(symbol)), toLowerCase(query))
      ToResult(symbol) ==
        [ symbol |-> symbol,
          market |-> IF symbol \in Range(INDIAN_SYMBOLS) THEN "indian" ELSE "global",
          currency |-> IF symbol \in Range(INDIAN_SYMBOLS) THEN "INR" ELSE "USD" ]
      found == SelectSeq(searchSymbols, Matches)
  IN  Slice0([i \in DOMAIN found |-> ToResult(found[i])], 10)

\* server.js 446-470: the matching symbols of the filtered list, at most 10
SearchResults(query, marketFilter) ==
  LET searchSymbols == IF marketFilter = "indian" THEN INDIAN_SYMBOLS
                       ELSE IF marketFilter = "global" THEN GLOBAL_SYMBOLS
                       ELSE INDIAN_SYMBOLS \o GLOBAL_SYMBOLS
      Matches(symbol) ==
        \/ includes(toLowerCase(SymbolText(symbol)), toLowerCase(query))
        \/ includes(toLowerCase(getCompanyName(symbol)), toLowerCase(query))
      ToResult(symbol) ==
        [ symbol |-> symbol,
          market |-> IF symbol \in Range(INDIAN_SYMBOLS) THEN "indian" ELSE "global",
          currency |-> IF symbol \in Range(INDIAN_SYMBOLS) THEN "INR" ELSE "USD" ]
      found == SelectSeq(searchSymbols, Matches)
  IN  Slice0([i \in DOMAIN found |-> ToResult(found[i])], 10)

IsIndianResult(r) == r.market = "indian"
IsGlobalResult(r) == r.market = "global"

\* marketFilter || 'all'
MarketOrAll(marketFilter) == IF marketFilter = "" THEN "all" ELSE marketFilter

\* server.js 472-482
SearchBody(query, marketFilter, t) ==
  LET results == SearchResults(query, marketFilter)
  IN  [ query |-> Join(query),
        marketFilter |-> MarketOrAll(marketFilter),
        results |-> results,
        total |-> Len(results),
        breakdown |-> [indian |-> Cardinality({ i \in DOMAIN results : IsIndianResult(results[i]) }),
                       global |-> Cardinality({ i \in DOMAIN results : IsGlobalResult(results[i]) })],
        timestamp |-> IsoString(t) ]

-----------------------------------------------------------------------------
(* Cache keys *)

\* a variant: one key per market, whatever the limit
MarketKey_perMarket(market, limit) == market \o "-stocks"

\* `indian-stocks-${limit}`, `global-stocks-${limit}`: server.js 76, 162
MarketKey(market, limit) == market \o "-stocks-" \o ToString(limit)

\* `unified-ticker-${includeIndian}-${includeGlobal}-${limit}`: server.js 259
BoolString(b) == IF b THEN "true" ELSE "false"
TickerKey(includeIndian, includeGlobal, limit) ==
  "unified-ticker-" \o BoolString(includeIndian) \o "-" \o BoolString(includeGlobal)
    \o "-" \o ToString(limit)

\* `stock-details-${symbol}`: server.js 380.  A symbol of the detail route is
\* its bare part and its exchange suffix ("", ".NS" or ".BO")
SymbolString(sym) == sym.base \o sym.suffix
DetailKey(sym) == "stock-details-" \o SymbolString(sym)

\* symbol.replace('.NS', '').replace('.BO', ''): server.js 395 (no bare part
\* of the inputs holds a suffix)
CleanSymbol(sym) == sym.base

\* `search-${query.toLowerCase()}-${marketFilter || 'all'}`: server.js 439
SearchKey(query, marketFilter) ==
  "search-" \o Join(toLowerCase(query)) \o "-" \o MarketOrAll(marketFilter)

-----------------------------------------------------------------------------
(* The fields of a quote.  A price of a payload or of a quote is Num(v)     *)
(* with v its value in thousandths (Num(110000) is 110); a volume or a      *)
(* market capitalisation is Num(v) with v the whole number.  A field of a    *)
(* payload or a quote is a JavaScript value, and a field an object does not  *)
(* carry reads as Undefined.                                                 *)

PerUnit == 10 * 100

Infinity(sign) == [k |-> "inf", v |-> sign]
Str(s) == [k |-> "str", v |-> s]
Bool(b) == [k |-> "bool", v |-> b]
\* a string that spells the decimal number v / PerUnit
NumStr(v) == [k |-> "numstr", v |-> v]

\* obj[f]
Get(obj, f) == IF f \in DOMAIN obj THEN obj[f] ELSE Undefined

\* ToBoolean
Truthy(x) ==
  CASE x.k = "num" -> x.v # 0
    [] x.k = "str" -> x.v # ""
    [] x.k = "bool" -> x.v
    [] x.k \in {"nan", "undef", "null"} -> FALSE
    [] OTHER -> TRUE

\* a || b
JsOr(a, b) == IF Truthy(a) THEN a ELSE b

\* ToNumber
ToNumber(x) ==
  CASE x.k \in {"num", "numstr"} -> Num(x.v)
    [] x.k = "inf" -> x
    [] x.k = "str" /\ x.v = "" -> Num(0)
    [] OTHER -> NaN

\* parseFloat(x): the number a string starts with, NaN for any other string
\* and for undefined
parseFloat(x) ==
  CASE x.k \in {"num", "numstr"} -> Num(x.v)
    [] x.k = "inf" -> x
    [] OTHER -> NaN

\* parseInt(x) of a count: the whole number the string spells
parseIntOf(x) == IF x.k \in {"num", "numstr"} THEN Num(x.v) ELSE NaN

\* Math.round(x * 100) / 100: to the nearest hundredth, a half towards +Infinity
Round2(x) ==
  LET y == ToNumber(x)
  IN  IF y.k = "num" THEN Num(((y.v + 5) \div 10) * 10) ELSE y

\* the quotient so far and the remainder, taken `digits` decimal digits further
RECURSIVE LongDiv(_, _, _, _)
LongDiv(q, r, d, digits) ==
  IF digits = 0 THEN [q |-> q, r |-> r]
  ELSE LongDiv(q * 10 + (r * 10) \div d, (r * 10) % d, d, digits - 1)

\* Math.round(((a / b) * 100) * 100) / 100: a / b is NaN for 0 / 0 and an
\* infinity for any other division by zero
RoundedPercent(a, b) ==
  LET x == ToNumber(a)
      y == ToNumber(b)
      n == IF y.v < 0 THEN 0 - x.v ELSE x.v
      d == Abs(y.v)
      \* n * 10000 / d by long division, four digits after the quotient
      whole == LongDiv(n \div d, n % d, d, 4)
  IN  IF x.k # "num" \/ y.k # "num" THEN NaN
      ELSE IF d = 0 THEN (IF x.v = 0 THEN NaN ELSE Infinity(IF x.v < 0 THEN 0 - 1 ELSE 1))
      ELSE Num((whole.q + (IF 2 * whole.r >= d THEN 1 ELSE 0)) * 10)

\* Math.round(shares * price), for shares given as parts / per
RoundedTimes(parts, per, price) ==
  LET y == ToNumber(price)
      d == per * PerUnit
      r == (parts * y.v) % d
  IN  IF y.k = "num"
        THEN Num((parts * y.v) \div d + (IF 2 * r >= d THEN 1 ELSE 0))
        ELSE y

IsFinite(x) == x.k = "num"

-----------------------------------------------------------------------------
(* The company tables *)

\* part_000 320-336
INDIAN_COMPANIES ==
  ("RELIANCE" :> [name |-> "Reliance Industries Ltd", sector |-> "Oil & Gas", basePrice |-> 2800, volatility |-> 80]) @@
  ("TCS" :> [name |-> "Tata Consultancy Services", sector |-> "IT Services", basePrice |-> 3900, volatility |-> 120]) @@
  ("HDFCBANK" :> [name |-> "HDFC Bank Limited", sector |-> "Banking", basePrice |-> 1650, volatility |-> 60]) @@
  ("INFY" :> [name |-> "Infosys Limited", sector |-> "IT Services", basePrice |-> 1750, volatility |-> 90]) @@
  ("HINDUNILVR" :> [name |-> "Hindustan Unilever Ltd", sector |-> "FMCG", basePrice |-> 2650, volatility |-> 100]) @@
  ("ITC" :> [name |-> "ITC Limited", sector |-> "FMCG", basePrice |-> 450, volatility |-> 25]) @@
  ("SBIN" :> [name |-> "State Bank of India", sector |-> "Banking", basePrice |-> 650, volatility |-> 40]) @@
  ("BHARTIARTL" :> [name |-> "Bharti Airtel Limited", sector |-> "Telecom", basePrice |-> 950, volatility |-> 50]) @@
  ("ASIANPAINT" :> [name |-> "Asian Paints Limited", sector |-> "Paints", basePrice |-> 3200, volatility |-> 150]) @@
  ("MARUTI" :> [name |-> "Maruti Suzuki India Ltd", sector |-> "Automotive", basePrice |-> 10500, volatility |-> 400]) @@
  ("ADANIGREEN" :> [name |-> "Adani Green Energy Ltd", sector |-> "Renewable Energy", basePrice |-> 1200, volatility |-> 200]) @@
  ("TATASTEEL" :> [name |-> "Tata Steel Limited", sector |-> "Steel", basePrice |-> 140, volatility |-> 30]) @@
  ("WIPRO" :> [name |-> "Wipro Limited", sector |-> "IT Services", basePrice |-> 450, volatility |-> 35]) @@
  ("LT" :> [name |-> "Larsen & Toubro Limited", sector |-> "Engineering", basePrice |-> 3400, volatility |-> 120]) @@
  ("HCLTECH" :> [name |-> "HCL Technologies Limited", sector |-> "IT Services", basePrice |-> 1200, volatility |-> 80])

\* server.js 866-885
GLOBAL_COMPANIES ==
  ("AAPL" :> [name |-> "Apple Inc.", sector |-> "Technology", basePrice |-> 175, volatility |-> 8]) @@
  ("GOOGL" :> [name |-> "Alphabet Inc.", sector |-> "Technology", basePrice |-> 142, volatility |-> 6]) @@
  ("MSFT" :> [name |-> "Microsoft Corporation", sector |-> "Technology", basePrice |-> 378, volatility |-> 12]) @@
  ("AMZN" :> [name |-> "Amazon.com Inc.", sector |-> "E-commerce", basePrice |-> 153, volatility |-> 7]) @@
  ("TSLA" :> [name |-> "Tesla Inc.", sector |-> "Electric Vehicles", basePrice |-> 248, volatility |-> 15]) @@
  ("META" :> [name |-> "Meta Platforms Inc.", sector |-> "Social Media", basePrice |-> 325, volatility |-> 12]) @@
  ("NVDA" :> [name |-> "NVIDIA Corporation", sector |-> "Semiconductors", basePrice |-> 465, volatility |-> 20]) @@
  ("NFLX" :> [name |-> "Netflix Inc.", sector |-> "Entertainment", basePrice |-> 445, volatility |-> 18]) @@
  ("BRK.B" :> [name |-> "Berkshire Hathaway Inc.", sector |-> "Conglomerate", basePrice |-> 350, volatility |-> 10]) @@
  ("JPM" :> [name |-> "JPMorgan Chase & Co.", sector |-> "Banking", basePrice |-> 145, volatility |-> 8]) @@
  ("V" :> [name |-> "Visa Inc.", sector |-> "Financial Services", basePrice |-> 245, volatility |-> 12]) @@
  ("JNJ" :> [name |-> "Johnson & Johnson", sector |-> "Healthcare", basePrice |-> 160, volatility |-> 6]) @@
  ("WMT" :> [name |-> "Walmart Inc.", sector |-> "Retail", basePrice |-> 155, volatility |-> 7]) @@
  ("PG" :> [name |-> "Procter & Gamble Co.", sector |-> "Consumer Goods", basePrice |-> 150, volatility |-> 5]) @@
  ("UNH" :> [name |-> "UnitedHealth Group Inc.", sector |-> "Healthcare", basePrice |-> 525, volatility |-> 15]) @@
  ("DIS" :> [name |-> "The Walt Disney Company", sector |-> "Entertainment", basePrice |-> 95, volatility |-> 10]) @@
  ("ADBE" :> [name |-> "Adobe Inc.", sector |-> "Software", basePrice |-> 525, volatility |-> 18]) @@
  ("CRM" :> [name |-> "Salesforce Inc.", sector |-> "Software", basePrice |-> 210, volatility |-> 15])

\* indian-markets-api.js 314-327
INDIAN_COMPANIES_basic ==
  ("RELIANCE" :> [name |-> "Reliance Industries Ltd", sector |-> "Oil & Gas"]) @@
  ("TCS" :> [name |-> "Tata Consultancy Services", sector |-> "IT Services"]) @@
  ("HDFCBANK" :> [name |-> "HDFC Bank Limited", sector |-> "Banking"]) @@
  ("INFY" :> [name |-> "Infosys Limited", sector |-> "IT Services"]) @@
  ("HINDUNILVR" :> [name |-> "Hindustan Unilever Ltd", sector |-> "FMCG"]) @@
  ("ITC" :> [name |-> "ITC Limited", sector |-> "FMCG"]) @@
  ("SBIN" :> [name |-> "State Bank of India", sector |-> "Banking"]) @@
  ("BHARTIARTL" :> [name |-> "Bharti Airtel Limited", sector |-> "Telecom"]) @@
  ("ASIANPAINT" :> [name |-> "Asian Paints Limited", sector |-> "Paints"]) @@
  ("MARUTI" :> [name |-> "Maruti Suzuki India Ltd", sector |-> "Automotive"]) @@
  ("ADANIGREEN" :> [name |-> "Adani Green Energy Ltd", sector |-> "Renewable Energy"]) @@
  ("TATASTEEL" :> [name |-> "Tata Steel Limited", sector |-> "Steel"])

\* indian-markets-api.js 296-303
basePrices ==
  ("RELIANCE" :> 2800) @@ ("TCS" :> 3900) @@ ("HDFCBANK" :> 1650) @@ ("INFY" :> 1750) @@
  ("HINDUNILVR" :> 2650) @@ ("ITC" :> 450) @@ ("SBIN" :> 650) @@ ("BHARTIARTL" :> 950) @@
  ("ASIANPAINT" :> 3200) @@ ("MARUTI" :> 10500) @@ ("ADANIGREEN" :> 1200) @@ ("TATASTEEL" :> 140)

\* indian-markets-api.js 305-312
volatilities ==
  ("RELIANCE" :> 80) @@ ("TCS" :> 120) @@ ("HDFCBANK" :> 60) @@ ("INFY" :> 90) @@
  ("HINDUNILVR" :> 100) @@ ("ITC" :> 25) @@ ("SBIN" :> 40) @@ ("BHARTIARTL" :> 50) @@
  ("ASIANPAINT" :> 150) @@ ("MARUTI" :> 400)

\* table[key]?.field || dflt
Lookup(table, key, field, dflt) ==
  IF key \in DOMAIN table THEN table[key][field] ELSE dflt

\* getIndianBasePrice: part_000 348-351, indian-markets-api.js 296-303
getIndianBasePrice(m, sym) ==
  IF m = "enhanced"
    THEN Lookup(INDIAN_COMPANIES, CleanSymbol(sym), "basePrice", 1000)
    ELSE IF CleanSymbol(sym) \in DOMAIN basePrices THEN basePrices[CleanSymbol(sym)] ELSE 1000

\* getIndianVolatility: part_000 353-356, indian-markets-api.js 305-312
getIndianVolatility(m, sym) ==
  IF m = "enhanced"
    THEN Lookup(INDIAN_COMPANIES, CleanSymbol(sym), "volatility", 50)
    ELSE IF CleanSymbol(sym) \in DOMAIN volatilities THEN volatilities[CleanSymbol(sym)] ELSE 50

\* getIndianCompanyName of the provider modules: part_000 338-341,
\* indian-markets-api.js 330-333
IndianCompanyName(m, sym) ==
  Lookup(IF m = "enhanced" THEN INDIAN_COMPANIES ELSE INDIAN_COMPANIES_basic,
         CleanSymbol(sym), "name", CleanSymbol(sym))

\* getIndianSector: part_000 343-346, indian-markets-api.js 335-338
getIndianSector(m, sym) ==
  Lookup(IF m = "enhanced" THEN INDIAN_COMPANIES ELSE INDIAN_COMPANIES_basic,
         CleanSymbol(sym), "sector", "Unknown")

\* the shares table of calculateIndianMarketCap, in crores: part_000 359-364,
\* indian-markets-api.js 341-345
shares(m) ==
  LET basic ==
        ("RELIANCE" :> 676) @@ ("TCS" :> 365) @@ ("HDFCBANK" :> 547) @@ ("INFY" :> 425) @@
        ("HINDUNILVR" :> 235) @@ ("ITC" :> 1240) @@ ("SBIN" :> 891) @@ ("BHARTIARTL" :> 534) @@
        ("ASIANPAINT" :> 96) @@ ("MARUTI" :> 30) @@ ("ADANIGREEN" :> 154) @@ ("TATASTEEL" :> 123)
  IN  IF m = "enhanced"
        THEN basic @@ ("WIPRO" :> 527) @@ ("LT" :> 140) @@ ("HCLTECH" :> 271)
        ELSE basic

\* calculateIndianMarketCap: part_000 358-367, indian-markets-api.js 340-348
calculateIndianMarketCap(m, sym, price) ==
  LET clean == CleanSymbol(sym)
  IN  RoundedTimes(IF clean \in DOMAIN shares(m) THEN shares(m)[clean] ELSE 100, 1, price)

\* the shares table of calculateGlobalMarketCap, in hundredths of a billion:
\* server.js 903-909
globalShares ==
  ("AAPL" :> 1570) @@ ("GOOGL" :> 1290) @@ ("MSFT" :> 740) @@ ("AMZN" :> 1070) @@
  ("TSLA" :> 320) @@ ("META" :> 250) @@ ("NVDA" :> 250) @@ ("NFLX" :> 44) @@
  ("BRK.B" :> 150) @@ ("JPM" :> 290) @@ ("V" :> 210) @@ ("JNJ" :> 260) @@
  ("WMT" :> 270) @@ ("PG" :> 240) @@ ("UNH" :> 90) @@ ("DIS" :> 180) @@
  ("ADBE" :> 46) @@ ("CRM" :> 98)

\* calculateGlobalMarketCap: server.js 902-911
calculateGlobalMarketCap(symbol, price) ==
  RoundedTimes(IF symbol \in DOMAIN globalShares THEN globalShares[symbol] ELSE 100, 100, price)

\* getGlobalExchange: server.js 890-893
getGlobalExchange(symbol) ==
  IF symbol \in {"AAPL", "GOOGL", "MSFT", "AMZN", "TSLA", "META", "NVDA", "NFLX", "ADBE", "CRM"}
    THEN "NASDAQ" ELSE "NYSE"

\* isIndianMarketOpen of part_000: 369-381.  In isMarketHours the && binds
\* tighter than the ||
isIndianMarketOpenEnhanced(t) ==
  LET m      == IstMinuteOfWeek(t)
      day    == m \div MinutesPerDay
      hour   == (m % MinutesPerDay) \div 60
      minute == m % 60
      isWeekday == day >= 1 /\ day <= 5
      isMarketHours == \/ ((hour > 9 \/ (hour = 9 /\ minute >= 15)) /\ hour < 15)
                       \/ (hour = 15 /\ minute <= 30)
  IN  isWeekday /\ isMarketHours

\* StockDataService.isMarketOpen: services/StockDataService.js 393-409
isMarketOpen(t) ==
  LET m           == IstMinuteOfWeek(t)
      dayOfWeek   == m \div MinutesPerDay
      hours       == (m % MinutesPerDay) \div 60
      minutes     == m % 60
      marketStart == 9 * 60 + 15
      marketEnd   == 15 * 60 + 30
      currentTime == hours * 60 + minutes
  IN  IF dayOfWeek = 0 \/ dayOfWeek = 6 THEN FALSE
      ELSE currentTime >= marketStart /\ currentTime <= marketEnd

\* isIndianMarketOpen of indian-markets-api.js: 349-357
isIndianMarketOpenBasic(t) ==
  LET m    == IstMinuteOfWeek(t)
      day  == m \div MinutesPerDay
      hour == (m % MinutesPerDay) \div 60
  IN  day >= 1 /\ day <= 5 /\ hour >= 9 /\ hour < 15

\* isGlobalMarketOpen: server.js 858-864.  New York is nine and a half hours
\* behind IST in summer
isGlobalMarketOpen(t) ==
  LET m    == (IstMinuteOfWeek(t) + MinutesPerWeek - (9 * 60 + 30)) % MinutesPerWeek
      day  == m \div MinutesPerDay
      hour == (m % MinutesPerDay) \div 60
  IN  day >= 1 /\ day <= 5 /\ hour >= 9 /\ hour < 16

-----------------------------------------------------------------------------
(* The generators, field by field.  The random draws of a call are rnd:     *)
(* rnd.wave is Math.sin(Date.now() / 10000) in tenths (-10..10), rnd.price   *)
(* and rnd.volume are the two values of Math.random() in hundredths (0..99). *)

\* variant: no floor under the price
generateEnhancedMockFields_noFloor(sym, rnd, t) ==
  LET basePrice == getIndianBasePrice("enhanced", sym) * PerUnit
      volatility == getIndianVolatility("enhanced", sym)
      totalVariation == (5 * rnd.wave + 2 * (rnd.price - 50)) * volatility * (PerUnit \div 100)
      price == basePrice + totalVariation
      change == totalVariation
      swing == (Abs(change) * 3) \div 10
  IN  [ symbol |-> Str(SymbolString(sym)),
        name |-> Str(IndianCompanyName("enhanced", sym)),
        price |-> Round2(Num(price)),
        change |-> Round2(Num(change)),
        changePercent |-> RoundedPercent(Num(change), Num(basePrice)),
        high |-> Round2(Num(price + swing)),
        low |-> Round2(Num(price - swing)),
        volume |-> Num(rnd.volume * (20000000 \div 100) + 5000000),
        previousClose |-> Round2(Num(basePrice)),
        marketCap |-> calculateIndianMarketCap("enhanced", sym, Num(price)),
        sector |-> Str(getIndianSector("enhanced", sym)),
        exchange |-> Str("NSE"),
        currency |-> Str("INR"),
        marketOpen |-> Bool(isIndianMarketOpenEnhanced(t)),
        timestamp |-> IsoString(t),
        source |-> Str("Enhanced_Mock_Data"),
        mock |-> Bool(TRUE) ]

\* generateEnhancedMockData, every field: part_000 282-314
generateEnhancedMockFields(sym, rnd, t) ==
  LET basePrice == getIndianBasePrice("enhanced", sym) * PerUnit
      volatility == getIndianVolatility("enhanced", sym)
      \* timeBasedVariation = wave / 20, randomVariation = (price - 50) / 50
      totalVariation == (5 * rnd.wave + 2 * (rnd.price - 50)) * volatility * (PerUnit \div 100)
      floor == (basePrice * 8) \div 10
      price == IF basePrice + totalVariation >= floor THEN basePrice + totalVariation ELSE floor
      change == totalVariation
      swing == (Abs(change) * 3) \div 10
  IN  [ symbol |-> Str(SymbolString(sym)),
        name |-> Str(IndianCompanyName("enhanced", sym)),
        price |-> Round2(Num(price)),
        change |-> Round2(Num(change)),
        changePercent |-> RoundedPercent(Num(change), Num(basePrice)),
        high |-> Round2(Num(price + swing)),
        low |-> Round2(Num(price - swing)),
        volume |-> Num(rnd.volume * (20000000 \div 100) + 5000000),
        previousClose |-> Round2(Num(basePrice)),
        marketCap |-> calculateIndianMarketCap("enhanced", sym, Num(price)),
        sector |-> Str(getIndianSector("enhanced", sym)),
        exchange |-> Str("NSE"),
        currency |-> Str("INR"),
        marketOpen |-> Bool(isIndianMarketOpenEnhanced(t)),
        timestamp |-> IsoString(t),
        source |-> Str("Enhanced_Mock_Data"),
        mock |-> Bool(TRUE) ]

\* generateMockIndianData, every field: indian-markets-api.js 271-294
generateMockIndianFields(sym, rnd, t) ==
  LET basePrice == getIndianBasePrice("basic", sym) * PerUnit
      volatility == getIndianVolatility("basic", sym)
      change == (rnd.price - 50) * volatility * (PerUnit \div 100)
      price == basePrice + change
      swing == Abs(change) \div 2
  IN  [ symbol |-> Str(SymbolString(sym)),
        name |-> Str(IndianCompanyName("basic", sym)),
        price |-> Round2(Num(price)),
        change |-> Round2(Num(change)),
        changePercent |-> RoundedPercent(Num(change), Num(basePrice)),
        high |-> Round2(Num(price + swing)),
        low |-> Round2(Num(price - swing)),
        volume |-> Num(rnd.volume * (50000000 \div 100) + 1000000),
        marketCap |-> calculateIndianMarketCap("basic", sym, Num(price)),
        sector |-> Str(getIndianSector("basic", sym)),
        exchange |-> Str("NSE"),
        currency |-> Str("INR"),
        marketOpen |-> Bool(isIndianMarketOpenBasic(t)),
        timestamp |-> IsoString(t),
        source |-> Str("Mock_Data_Fallback") ]

\* generateGlobalMockData, every field: server.js 808-839
generateGlobalMockFields(symbol, rnd, t) ==
  LET basePrice == Lookup(GLOBAL_COMPANIES, symbol, "basePrice", 100) * PerUnit
      volatility == Lookup(GLOBAL_COMPANIES, symbol, "volatility", 5)
      totalVariation == (5 * rnd.wave + 2 * (rnd.price - 50)) * volatility * (PerUnit \div 100)
      floor == (basePrice * 85) \div 100
      price == IF basePrice + totalVariation >= floor THEN basePrice + totalVariation ELSE floor
      change == totalVariation
      swing == (Abs(change) * 4) \div 10
  IN  [ symbol |-> Str(symbol),
        name |-> Str(Lookup(GLOBAL_COMPANIES, symbol, "name", symbol)),
        price |-> Round2(Num(price)),
        change |-> Round2(Num(change)),
        changePercent |-> RoundedPercent(Num(change), Num(basePrice)),
        high |-> Round2(Num(price + swing)),
        low |-> Round2(Num(price - swing)),
        volume |-> Num(rnd.volume * (100000000 \div 100) + 10000000),
        previousClose |-> Round2(Num(basePrice)),
        marketCap |-> calculateGlobalMarketCap(symbol, Num(price)),
        sector |-> Str(Lookup(GLOBAL_COMPANIES, symbol, "sector", "Unknown")),
        exchange |-> Str(getGlobalExchange(symbol)),
        currency |-> Str("USD"),
        marketOpen |-> Bool(isGlobalMarketOpen(t)),
        timestamp |-> IsoString(t),
        source |-> Str("Mock_Global_Data"),
        mock |-> Bool(TRUE) ]

-----------------------------------------------------------------------------
(* The adapters, field by field, on the body of the provider's answer       *)
(* (response.data).  An object of a body is the function from its keys to    *)
(* its values; an adapter either returns a quote or throws.                  *)

Throws == [thrown |-> TRUE]
Gives(quote) == [thrown |-> FALSE, quote |-> quote]

\* array.filter(x => x !== null)
NonNull(array) == SelectSeq(array, LAMBDA x : x.k # "null")
\* array[array.length - 1], array.pop()
LastOf(array) == IF Len(array) = 0 THEN Undefined ELSE array[Len(array)]

\* fetchYahooIndianStock, on the answer of one proxy: part_000 48-77.  A body
\* without chart.result[0] has an empty result here, and is thrown on
fetchYahooIndianStock(sym, body, t) ==
  IF Len(body.chart.result) = 0 THEN Throws
  ELSE
    LET data == body.chart.result[1]
        meta == data.meta
        quote == data.indicators.quote[1]
        prices == NonNull(quote.close)
        currentPrice == LastOf(prices)
        previousClose == Get(meta, "previousClose")
        change == JsMinus(ToNumber(currentPrice), ToNumber(previousClose))
    IN  Gives([ symbol |-> Str(SymbolString(sym)),
                name |-> Str(IndianCompanyName("enhanced", sym)),
                price |-> Round2(currentPrice),
                change |-> Round2(change),
                changePercent |-> RoundedPercent(change, previousClose),
                high |-> Round2(JsOr(LastOf(NonNull(quote.high)), currentPrice)),
                low |-> Round2(JsOr(LastOf(NonNull(quote.low)), currentPrice)),
                volume |-> JsOr(LastOf(NonNull(quote.volume)), Num(0)),
                previousClose |-> Round2(previousClose),
                marketCap |-> calculateIndianMarketCap("enhanced", sym, currentPrice),
                sector |-> Str(getIndianSector("enhanced", sym)),
                exchange |-> Str(IF sym.suffix \in {"", ".NS"} THEN "NSE" ELSE "BSE"),
                currency |-> Str("INR"),
                marketOpen |-> Bool(isIndianMarketOpenEnhanced(t)),
                timestamp |-> IsoString(t),
                source |-> Str("Yahoo_Finance_Proxy") ])

\* fetchFMPIndianStock: part_000 90-124; the body is an array of rows
fetchFMPIndianStock(sym, body, t) ==
  IF Len(body) = 0 THEN Throws
  ELSE
    LET data == body[1]
    IN  Gives([ symbol |-> Str(SymbolString(sym)),
                name |-> JsOr(Get(data, "name"), Str(IndianCompanyName("enhanced", sym))),
                price |-> Round2(Get(data, "price")),
                change |-> Round2(Get(data, "change")),
                changePercent |-> Round2(Get(data, "changesPercentage")),
                high |-> Round2(Get(data, "dayHigh")),
                low |-> Round2(Get(data, "dayLow")),
                volume |-> JsOr(Get(data, "volume"), Num(0)),
                previousClose |-> Round2(Get(data, "previousClose")),
                marketCap |-> JsOr(Get(data, "marketCap"),
                                   calculateIndianMarketCap("enhanced", sym, Get(data, "price"))),
                sector |-> Str(getIndianSector("enhanced", sym)),
                exchange |-> Str("NSE"),
                currency |-> Str("INR"),
                marketOpen |-> Bool(isIndianMarketOpenEnhanced(t)),
                timestamp |-> IsoString(t),
                source |-> Str("Financial_Modeling_Prep") ])

\* !quote || Object.keys(quote).length === 0, for quote = body['Global Quote']
NoGlobalQuote(body) ==
  "Global Quote" \notin DOMAIN body \/ DOMAIN body["Global Quote"] = {}

\* fetchAlphaVantageStock: part_000 130-173
fetchAlphaVantageStock(sym, body, t) ==
  IF NoGlobalQuote(body) THEN Throws
  ELSE
    LET quote == body["Global Quote"]
        price == JsOr(parseFloat(Get(quote, "05. price")), Num(0))
        change == JsOr(parseFloat(Get(quote, "09. change")), Num(0))
        changePercent == IF Truthy(Get(quote, "10. change percent"))
                           THEN parseFloat(Get(quote, "10. change percent"))
                           ELSE Num(0)
    IN  Gives([ symbol |-> Str(SymbolString(sym)),
                name |-> Str(IndianCompanyName("enhanced", sym)),
                price |-> Round2(price),
                change |-> Round2(change),
                changePercent |-> Round2(changePercent),
                high |-> Round2(JsOr(parseFloat(Get(quote, "03. high")), price)),
                low |-> Round2(JsOr(parseFloat(Get(quote, "04. low")), price)),
                volume |-> JsOr(parseIntOf(Get(quote, "06. volume")), Num(0)),
                previousClose |-> Round2(JsOr(parseFloat(Get(quote, "08. previous close")), price)),
                marketCap |-> calculateIndianMarketCap("enhanced", sym, price),
                sector |-> Str(getIndianSector("enhanced", sym)),
                exchange |-> Str("NSE"),
                currency |-> Str("INR"),
                marketOpen |-> Bool(isIndianMarketOpenEnhanced(t)),
                timestamp |-> IsoString(t),
                source |-> Str("Alpha_Vantage") ])

\* fetchTwelveDataStock: part_000 179-219
fetchTwelveDataStock(sym, body, t) ==
  LET data == body
      status == Get(data, "status")
  IN  IF status.k = "str" /\ status.v = "error" THEN Throws
      ELSE
        LET price == JsOr(parseFloat(Get(data, "close")), Num(0))
            previousClose == JsOr(parseFloat(Get(data, "previous_close")), price)
            change == JsMinus(price, previousClose)
        IN  Gives([ symbol |-> Str(SymbolString(sym)),
                    name |-> JsOr(Get(data, "name"), Str(IndianCompanyName("enhanced", sym))),
                    price |-> Round2(price),
                    change |-> Round2(change),
                    changePercent |-> RoundedPercent(change, previousClose),
                    high |-> Round2(JsOr(parseFloat(Get(data, "high")), price)),
                    low |-> Round2(JsOr(parseFloat(Get(data, "low")), price)),
                    volume |-> JsOr(parseIntOf(Get(data, "volume")), Num(0)),
                    previousClose |-> Round2(previousClose),
                    marketCap |-> calculateIndianMarketCap("enhanced", sym, price),
                    sector |-> Str(getIndianSector("enhanced", sym)),
                    exchange |-> JsOr(Get(data, "exchange"), Str("NSE")),
                    currency |-> Str("INR"),
                    marketOpen |-> Bool(isIndianMarketOpenEnhanced(t)),
                    timestamp |-> IsoString(t),
                    source |-> Str("Twelve_Data") ])

\* fetchPolygonIndianStock once the key is configured: indian-markets-api.js
\* 104-126.  new Date(data.t).toISOString() throws a RangeError unless data.t
\* is a time
fetchPolygonIndianStock(sym, body, t) ==
  IF "results" \notin DOMAIN body THEN Throws
  ELSE IF Len(body.results) = 0 THEN Throws
  ELSE
    LET data == body.results[1]
        change == JsMinus(ToNumber(Get(data, "c")), ToNumber(Get(data, "o")))
    IN  IF ToNumber(Get(data, "t")).k # "num" THEN Throws
        ELSE Gives([ symbol |-> Str(SymbolString(sym)),
                     name |-> Str(IndianCompanyName("basic", sym)),
                     price |-> Round2(Get(data, "c")),
                     change |-> Round2(change),
                     changePercent |-> RoundedPercent(change, Get(data, "o")),
                     high |-> Round2(Get(data, "h")),
                     low |-> Round2(Get(data, "l")),
                     volume |-> Get(data, "v"),
                     previousClose |-> Round2(Get(data, "o")),
                     marketCap |-> calculateIndianMarketCap("basic", sym, Get(data, "c")),
                     sector |-> Str(getIndianSector("basic", sym)),
                     exchange |-> Str("NSE"),
                     currency |-> Str("INR"),
                     marketOpen |-> Bool(isIndianMarketOpenBasic(t)),
                     timestamp |-> IsoString(Get(data, "t").v),
                     source |-> Str("Polygon_Free") ])

\* fetchAlphaVantageIndianStock once the key is configured:
\* indian-markets-api.js 207-231
fetchAlphaVantageIndianStock(sym, body, t) ==
  IF NoGlobalQuote(body) THEN Throws
  ELSE
    LET quote == body["Global Quote"]
    IN  Gives([ symbol |-> Str(SymbolString(sym)),
                name |-> Str(IndianCompanyName("basic", sym)),
                price |-> JsOr(parseFloat(Get(quote, "05. price")), Num(0)),
                change |-> JsOr(parseFloat(Get(quote, "09. change")), Num(0)),
                changePercent |-> IF Truthy(Get(quote, "10. change percent"))
                                    THEN parseFloat(Get(quote, "10. change percent"))
                                    ELSE Num(0),
                high |-> JsOr(parseFloat(Get(quote, "03. high")), Num(0)),
                low |-> JsOr(parseFloat(Get(quote, "04. low")), Num(0)),
                volume |-> JsOr(parseIntOf(Get(quote, "06. volume")), Num(0)),
                previousClose |-> JsOr(parseFloat(Get(quote, "08. previous close")), Num(0)),
                marketCap |-> calculateIndianMarketCap("basic", sym,
                                                       parseFloat(Get(quote, "05. price"))),
                sector |-> Str(getIndianSector("basic", sym)),
                exchange |-> Str("BSE"),
                currency |-> Str("INR"),
                marketOpen |-> Bool(isIndianMarketOpenBasic(t)),
                timestamp |-> IsoString(t),
                source |-> Str("Alpha_Vantage_Indian") ])

\* fetchGlobalStockData once the key is configured: server.js 772-805; what
\* the try block throws is caught and answered with generated data
fetchGlobalStockData(symbol, body, rnd, t) ==
  IF NoGlobalQuote(body) THEN Gives(generateGlobalMockFields(symbol, rnd, t))
  ELSE
    LET quote == body["Global Quote"]
        price == JsOr(parseFloat(Get(quote, "05. price")), Num(0))
        change == JsOr(parseFloat(Get(quote, "09. change")), Num(0))
        changePercent == IF Truthy(Get(quote, "10. change percent"))
                           THEN parseFloat(Get(quote, "10. change percent"))
                           ELSE Num(0)
    IN  Gives([ symbol |-> Str(symbol),
                name |-> Str(Lookup(GLOBAL_COMPANIES, symbol, "name", symbol)),
                price |-> Round2(price),
                change |-> Round2(change),
                changePercent |-> Round2(changePercent),
                high |-> Round2(JsOr(parseFloat(Get(quote, "03. high")), price)),
                low |-> Round2(JsOr(parseFloat(Get(quote, "04. low")), price)),
                volume |-> JsOr(parseIntOf(Get(quote, "06. volume")), Num(0)),
                previousClose |-> Round2(JsOr(parseFloat(Get(quote, "08. previous close")), price)),
                marketCap |-> calculateGlobalMarketCap(symbol, price),
                sector |-> Str(Lookup(GLOBAL_COMPANIES, symbol, "sector", "Unknown")),
                exchange |-> Str(getGlobalExchange(symbol)),
                currency |-> Str("USD"),
                marketOpen |-> Bool(isGlobalMarketOpen(t)),
                timestamp |-> IsoString(t),
                source |-> Str("Alpha_Vantage_Global") ])

-----------------------------------------------------------------------------
(* Inputs *)

\* the credentials of a deployment: nothing set, the .env of setup.sh, real keys
Deployments ==
  { [FMP |-> "", TWELVE |-> "", ALPHA |-> "", POLYGON |-> ""],
    [FMP |-> "demo", TWELVE |-> "demo", ALPHA |-> "demo", POLYGON |-> "demo"],
    [FMP |-> "live-key", TWELVE |-> "live-key", ALPHA |-> "live-key", POLYGON |-> "live-key"] }

\* Friday 15:30 IST at now = 0: the market is open until now reaches one minute
FridayClose == 5 * MinutesPerDay + 15 * 60 + 30

Request(route, limit, indian, global, symbol, query, market) ==
  [ route |-> route, limit |-> limit, indian |-> indian, global |-> global,
    symbol |-> symbol, query |-> query, market |-> market ]

NoSymbol == [base |-> "", suffix |-> ""]
NoRequest == Request("none", Absent, Absent, Absent, NoSymbol, << >>, "")

\* GET /api/stocks/indian?limit=..., /api/stocks/global?limit=...
GetMarket(market, limit) == Request(market, limit, Absent, Absent, NoSymbol, << >>, "")
\* GET /api/stocks/ticker?indian=...&global=...&limit=...
GetTicker(indian, global, limit) == Request("ticker", limit, indian, global, NoSymbol, << >>, "")
\* GET /api/stocks/:symbol
GetDetail(base, suffix) ==
  Request("detail", Absent, Absent, Absent, [base |-> base, suffix |-> suffix], << >>, "")
\* GET /api/stocks/search/:query?market=...
GetSearch(query, market) == Request("search", Absent, Absent, Absent, NoSymbol, query, market)

\* the exchange completed last, as a request arriving now finds it
Prior == [q |-> lastResp.q, cachedAt |-> lastResp.cachedAt]

NoResponse ==
  [ n |-> 0, q |-> NoRequest, handler |-> "none", key |-> "", limit |-> 0,
    arrivedAt |-> 0, prior |-> [q |-> NoRequest, cachedAt |-> -1],
    read |-> Null, status |-> 0, fromCache |-> FALSE, body |-> Null,
    tasks |-> << >>, cachedAt |-> -1, sentAt |-> 0 ]

-----------------------------------------------------------------------------
(* History kept with every setCachedData(key, ...) of a handler: c is the   *)
(* Map before the call, c2 after it.  A key keeps its firstIn and writer    *)
(* after its entry is gone; they are overwritten when it comes back.        *)

Recorded(c, c2, key, q) ==
  /\ nsets' = nsets + 1
  /\ firstIn' = IF MapHas(c, key) THEN firstIn ELSE (key :> nsets + 1) @@ firstIn
  /\ writer' = (key :> q) @@ writer
  /\ evicted' = [ gone |-> (MapKeys(c) \cup {key}) \ MapKeys(c2), size |-> Len(c2) ]

NotRecorded == UNCHANGED <<writer, evicted, firstIn, nsets>>

-----------------------------------------------------------------------------
(* The handlers *)

\* variant: the handler goes on as soon as one resolve call has settled
AllDone_first(tasks) == \E i \in DOMAIN tasks : tasks[i].st = "done"

AllDone(tasks) == \A i \in DOMAIN tasks : tasks[i].st = "done"

\* the response a handler computes once every resolve call has settled
Computed(r, t) ==
  CASE r.handler = "indian" -> MarketBody(r.tasks, r.errors, "indian", t)
    [] r.handler = "global" -> MarketBody(r.tasks, r.errors, "global", t)
    [] r.handler = "ticker" -> TickerBody(r.tasks, r.errors, r.limit, t)
    [] r.handler = "detail" -> DetailBody(r.tasks[1].result, t)

Sent(r, status, fromCache, body, cachedAt) ==
  lastResp' = [ n |-> r.n, q |-> r.q, handler |-> r.handler, key |-> r.key,
                limit |-> r.limit, arrivedAt |-> r.arrivedAt, prior |-> r.prior,
                read |-> r.read, status |-> status, fromCache |-> fromCache, body |-> body,
                tasks |-> r.tasks, cachedAt |-> cachedAt, sentAt |-> now ]

\* server.js 406: stockData.analysis = ... throws when the resolve call gave no
\* stockData, and the catch of the detail route answers 404 (420-427)
Thrown(r) == r.handler = "detail" /\ ~IsQuote(r.tasks[1].result)

\* server.js 422-427
NotFoundBody(r, t) ==
  [ error |-> "Stock not found or data unavailable",
    symbol |-> SymbolString(r.q.symbol),
    message |-> "Cannot set properties of undefined",
    timestamp |-> IsoString(t) ]

\* the tail of a handler past its await: build the response, cache it, send it
\* (server.js 108-144, 194-230, 313-362, 406-419); c is the Map at that point
Finish(r, c) ==
  IF Thrown(r)
    THEN /\ cache' = c
         /\ NotRecorded
         /\ Sent(r, 404, FALSE, NotFoundBody(r, now), -1)
    ELSE LET body == Computed(r, now)
             c2   == setCachedData(c, r.key, body, CACHE_DURATION, now)
         IN  /\ cache' = c2
             /\ Recorded(c, c2, r.key, r.q)
             /\ Sent(r, 200, FALSE, body, now)

\* a handler has missed the cache and started its resolve calls
Started(r, c, rest) ==
  IF AllDone(r.tasks)
    THEN /\ Finish(r, c)
         /\ reqs' = rest
    ELSE /\ Len(rest) < scope.inflight
         /\ cache' = c
         /\ NotRecorded
         /\ UNCHANGED lastResp
         /\ reqs' = Append(rest, r)

\* a request as its handler holds it; read is what getCachedData returned to it
NewRequest(q, handler, key, limit, read) ==
  [ n |-> nreq + 1, q |-> q, handler |-> handler, key |-> key, limit |-> limit,
    arrivedAt |-> now, prior |-> Prior, read |-> read, tasks |-> << >>,
    errors |-> << >> ]

Received ==
  /\ nreq < scope.requests
  /\ nreq' = nreq + 1
  /\ UNCHANGED <<now, istBase, env, apiModule, probe, wa, sds, scope>>

\* the resolve calls of one handler run, each up to its first await; rnd[i] is
\* what Math.random gives the i-th if it reaches the generator in this step
Fanout(chain, symbols, rnd, offset) ==
  [i \in DOMAIN symbols
     |-> StartResolve(chain, apiModule, symbols[i], rnd[offset + i], now)]

\* GET /api/stocks/indian and GET /api/stocks/global: server.js 73-153, 159-239
HandleMarket(market, rawLimit, rnd) ==
  LET limit   == LimitOf(rawLimit, DEFAULT_LIMIT_MARKET)
      key     == MarketKey(market, limit)
      got     == getCachedData(cache, key, now)
      r       == NewRequest(GetMarket(market, rawLimit), market, key, limit, got.value)
      symbols == Slice0(IF market = "indian" THEN INDIAN_SYMBOLS ELSE GLOBAL_SYMBOLS, limit)
  IN  /\ Received
      /\ IF got.value # Null
           THEN /\ cache' = got.cache
                /\ NotRecorded
                /\ Sent(r, 200, TRUE, AnnotateTop(got.value, now), -1)
                /\ UNCHANGED reqs
           ELSE Started([r EXCEPT !.tasks = Fanout(market, symbols, rnd, 0)],
                           got.cache, reqs)

\* Math.random for each of n synthetic quotes
Randoms(n) == [1..n -> scope.pcts]

\* the number of symbols a request to a single-market route selects
MarketFan(symbols, rawLimit) ==
  Len(Slice0(symbols, LimitOf(rawLimit, DEFAULT_LIMIT_MARKET)))

HandleIndian ==
  \E q \in scope.shapes :
    /\ q.route = "indian"
    /\ \E rnd \in Randoms(MarketFan(INDIAN_SYMBOLS, q.limit)) :
         HandleMarket("indian", q.limit, rnd)

HandleGlobal ==
  \E q \in scope.shapes :
    /\ q.route = "global"
    /\ \E rnd \in Randoms(MarketFan(GLOBAL_SYMBOLS, q.limit)) :
         HandleMarket("global", q.limit, rnd)

\* GET /api/stocks/ticker: server.js 245-371
HandleTickerWith(rawIndian, rawGlobal, rawLimit, rnd) ==
  LET includeIndian == IncludeFlag(rawIndian)
      includeGlobal == IncludeFlag(rawGlobal)
      limit   == LimitOf(rawLimit, DEFAULT_LIMIT_TICKER)
      key     == TickerKey(includeIndian, includeGlobal, limit)
      got     == getCachedData(cache, key, now)
      r       == NewRequest(GetTicker(rawIndian, rawGlobal, rawLimit), "ticker", key, limit,
                            got.value)
      redirected == NewRequest(GetTicker(rawIndian, rawGlobal, rawLimit), "ticker", "", limit,
                               Null)
      indianSymbols == IF includeIndian
                         THEN Slice0(INDIAN_SYMBOLS, CeilSixTenths(limit)) ELSE << >>
      globalSymbols == IF includeGlobal
                         THEN Slice0(GLOBAL_SYMBOLS, FloorFourTenths(limit)) ELSE << >>
  IN  /\ Received
      /\ IF includeIndian # includeGlobal
           THEN \* res.redirect to the single-market route, Math.ceil(limit) = limit
                /\ Sent(redirected, 302, FALSE,
                        [location |-> IF includeIndian THEN "indian" ELSE "global",
                         limit |-> limit], -1)
                /\ NotRecorded
                /\ UNCHANGED <<cache, reqs>>
         ELSE IF got.value # Null
           THEN /\ cache' = got.cache
                /\ NotRecorded
                /\ Sent(r, 200, TRUE, AnnotateSummary(got.value, now), -1)
                /\ UNCHANGED reqs
           ELSE Started([r EXCEPT !.tasks =
                              Fanout("indian", indianSymbols, rnd, 0)
                                \o Fanout("global", globalSymbols, rnd, Len(indianSymbols))],
                           got.cache, reqs)

\* the number of symbols a request to the ticker selects
TickerFan(rawIndian, rawGlobal, rawLimit) ==
  LET limit == LimitOf(rawLimit, DEFAULT_LIMIT_TICKER)
  IN  (IF IncludeFlag(rawIndian)
         THEN Len(Slice0(INDIAN_SYMBOLS, CeilSixTenths(limit))) ELSE 0)
      + (IF IncludeFlag(rawGlobal)
           THEN Len(Slice0(GLOBAL_SYMBOLS, FloorFourTenths(limit))) ELSE 0)

HandleTicker ==
  \E q \in scope.shapes :
    /\ q.route = "ticker"
    /\ \E rnd \in Randoms(TickerFan(q.indian, q.global, q.limit)) :
         HandleTickerWith(q.indian, q.global, q.limit, rnd)

\* GET /api/stocks/:symbol: server.js 377-429
HandleDetailOf(sym, rnd) ==
  LET key   == DetailKey(sym)
      got   == getCachedData(cache, key, now)
      r     == NewRequest(GetDetail(sym.base, sym.suffix), "detail", key, 0, got.value)
      isIndianStock == CleanSymbol(sym) \in Range(INDIAN_SYMBOLS)
      chain == IF isIndianStock THEN "indian" ELSE "global"
  IN  /\ Received
      /\ IF got.value # Null
           THEN /\ cache' = got.cache
                /\ NotRecorded
                /\ Sent(r, 200, TRUE, AnnotateTop(got.value, now), -1)
                /\ UNCHANGED reqs
           ELSE Started([r EXCEPT !.tasks =
                           << StartResolve(chain, apiModule, SymbolString(sym), rnd, now) >>],
                        got.cache, reqs)

HandleDetail ==
  \E q \in scope.shapes, rnd \in scope.pcts :
    q.route = "detail" /\ HandleDetailOf(q.symbol, rnd)

\* GET /api/stocks/search/:query: server.js 435-493
HandleSearchOf(query, marketFilter) ==
  LET key  == SearchKey(query, marketFilter)
      got  == getCachedData(cache, key, now)
      r    == NewRequest(GetSearch(query, marketFilter), "search", key, 0, got.value)
      body == SearchBody(query, marketFilter, now)
      c2   == setCachedData(got.cache, key, body, LONG_CACHE_DURATION, now)
  IN  /\ Received
      /\ UNCHANGED reqs
      /\ IF got.value # Null
           THEN /\ cache' = got.cache
                /\ NotRecorded
                /\ Sent(r, 200, TRUE, got.value, -1)
           ELSE /\ cache' = c2
                /\ Recorded(got.cache, c2, key, r.q)
                /\ Sent(r, 200, FALSE, body, now)

HandleSearch ==
  \E q \in scope.shapes :
    q.route = "search" /\ HandleSearchOf(q.query, q.market)

\* the pending upstream request of task j of the suspended request i settles
SettleWith(i, j, out, pct, rnd) ==
  LET r    == reqs[i]
      r2   == [r EXCEPT !.tasks[j] = SettleTask(r.tasks[j], out, pct, apiModule, rnd, now)]
      rest == SubSeq(reqs, 1, i - 1) \o SubSeq(reqs, i + 1, Len(reqs))
  IN  /\ r.tasks[j].st = "await"
      /\ UNCHANGED <<now, istBase, env, apiModule, nreq, probe, wa, sds, scope>>
      /\ IF AllDone(r2.tasks)
           THEN /\ Finish(r2, cache)
                /\ reqs' = rest
           ELSE /\ reqs' = [reqs EXCEPT ![i] = r2]
                /\ NotRecorded
                /\ UNCHANGED <<cache, lastResp>>

Settle ==
  \E i \in DOMAIN reqs : \E j \in DOMAIN reqs[i].tasks :
    \E out \in {"ok", "fail"}, pct \in scope.pcts, rnd \in scope.pcts :
      SettleWith(i, j, out, pct, rnd)

\* time passes
Tick ==
  /\ \E t \in scope.times : t > now /\ now' = t
  /\ UNCHANGED <<istBase, env, apiModule, cache, reqs, lastResp, writer, evicted,
                 firstIn, nsets, nreq, probe, wa, sds, scope>>

-----------------------------------------------------------------------------
(* Specifications *)

NoEviction == [gone |-> {}, size |-> 0]

(* The services of the browser: services/WhatsAppService.js and           *)
(* services/StockDataService.js.  Each is one object; a call of an async    *)
(* method runs from one await to the next in a step.                        *)

\* WhatsAppService.js 7-9
rateLimitPerMinute == 30
maxRetries == 3
retryDelay == 2000
\* await this.delay(200): WhatsAppService.js 314
BulkPause == 200

\* no bulk run has been started; reasons (why each sendAlert returned what it
\* did) and runs are history
NoBulk ==
  [ st |-> "idle", phoneNumbers |-> << >>, alerts |-> << >>, i |-> 1, j |-> 1,
    results |-> << >>, reasons |-> << >>, due |-> 0, runs |-> 0 ]

\* no call has returned yet
NoReturn ==
  [ n |-> 0, fn |-> "none", owner |-> "none", phone |-> "", id |-> "", alert |-> "",
    value |-> Undefined, reason |-> "none", rejected |-> FALSE,
    attempts |-> 0, oks |-> 0, afterOk |-> 0 ]

\* new WhatsAppService(): WhatsAppService.js 3-14.  calls are the sendAlert and
\* sendMessage calls in flight; delivered, returned and ncalls are history
NewWhatsAppService ==
  [ isInitialized |-> FALSE, phoneNumber |-> "", sentMessages |-> {},
    rateLimitTracker |-> << >>, calls |-> << >>, bulk |-> NoBulk,
    delivered |-> << >>, returned |-> NoReturn, ncalls |-> 0 ]

\* StockDataService.js 8-9
cacheTimeout == 30000
maxCacheSize == 1000

\* this.sources = {}: an object that is no array and has no includes method
NoSources == [isArray |-> FALSE, items |-> << >>]

\* no getStockQuote or getMarketIndices call has settled yet
NoSettled ==
  [ n |-> 0, fn |-> "none", symbol |-> "", source |-> "", outcome |-> "none",
    value |-> Null, requests |-> 0, depth |-> 0 ]

\* new StockDataService(): StockDataService.js 3-14.  apis tells whether
\* this.apis is defined; calls are the calls in flight; settled, lastSize and
\* ncalls are history
NewStockDataService ==
  [ isInitialized |-> FALSE, sources |-> NoSources, apis |-> FALSE, cache |-> << >>,
    calls |-> << >>, settled |-> NoSettled, lastSize |-> 0, ncalls |-> 0 ]

\* no adapter or generator has been called on its own yet
NoProbe == [fn |-> "none"]

InitWith(c, deployments, modules, sc) ==
  /\ now = 0
  /\ istBase = FridayClose
  /\ env \in deployments
  /\ apiModule \in modules
  /\ cache = c
  /\ reqs = << >>
  /\ lastResp = NoResponse
  /\ writer = [k \in MapKeys(c) |-> NoRequest]
  /\ evicted = NoEviction
  /\ firstIn = [k \in MapKeys(c) |-> 0 - Len(c) + MapIndex(c, k)]
  /\ nsets = 0
  /\ nreq = 0
  /\ probe = NoProbe
  /\ wa = NewWhatsAppService
  /\ sds = NewStockDataService
  /\ scope = sc

SetupSh == [FMP |-> "demo", TWELVE |-> "demo", ALPHA |-> "demo", POLYGON |-> "demo"]

(* The aggregation routes on the deployment setup.sh makes: with no real   *)
(* key the Indian chain is the three Yahoo proxies and the global resolver  *)
(* goes straight to the generator.                                         *)
ServeShapes ==
  { GetMarket("indian", << "1" >>), GetMarket("indian", << "1", "x" >>),
    GetMarket("global", << "1" >>), GetMarket("global", << "2" >>),
    GetTicker(Absent, Absent, << "1" >>),
    GetTicker(Str_false, Str_false, Absent), GetTicker(Str_false, Str_false, << "1" >>),
    GetTicker(Absent, Str_false, << "1" >>) }

ServeScope ==
  [ requests |-> ServeRequests, inflight |-> ServeInflight,
    times |-> {59600, 60000}, shapes |-> ServeShapes, pcts |-> {100} ]

Init == InitWith(<< >>, {SetupSh}, {"enhanced"}, ServeScope)

Next ==
  \/ HandleIndian
  \/ HandleGlobal
  \/ HandleTicker
  \/ Settle
  \/ Tick

Spec == Init /\ [][Next]_vars

(* The provider chains: single-symbol requests under every deployment and  *)
(* each revision of indian-markets-api.js.                                 *)
ResolveShapes ==
  { GetDetail("RELIANCE", ""), GetDetail("TCS", ".NS"), GetDetail("AAPL", "") }

ResolveScope ==
  [ requests |-> ResolveRequests, inflight |-> ResolveRequests,
    times |-> {1000}, shapes |-> ResolveShapes, pcts |-> {100} ]

InitResolve == InitWith(<< >>, Deployments, {"enhanced", "basic"}, ResolveScope)

NextResolve ==
  \/ HandleDetail
  \/ Settle
  \/ Tick

SpecResolve == InitResolve /\ [][NextResolve]_vars

(* Every upstream request is made with a timeout (part_000 42, 96, 138,    *)
(* 186; indian-markets-api.js 38, 101, 153, 204; server.js 769), so a      *)
(* pending request settles: weak fairness of Settle.                       *)
SpecResolveFair == InitResolve /\ [][NextResolve]_vars /\ WF_vars(Settle)

(* Expiry: entries of both lifetimes read just before and at the end of    *)
(* their lifetime.  Every handler of this run completes in its first step. *)
CacheShapes ==
  { GetSearch(<< "R", "e", "l" >>, ""), GetSearch(<< "r", "e", "l" >>, ""),
    GetMarket("global", << "1" >>), GetTicker(Str_false, Str_false, Absent),
    GetDetail("AAPL", "") }

CacheScope ==
  [ requests |-> CacheRequests, inflight |-> 0,
    times |-> {CACHE_DURATION - 1, CACHE_DURATION,
               LONG_CACHE_DURATION - 1, LONG_CACHE_DURATION},
    shapes |-> CacheShapes, pcts |-> {100} ]

InitCache == InitWith(<< >>, {SetupSh}, {"enhanced"}, CacheScope)

NextCache ==
  \/ HandleSearch
  \/ HandleGlobal
  \/ HandleTicker
  \/ HandleDetail
  \/ Tick

SpecCache == InitCache /\ [][NextCache]_vars

(* A warm cache: Prefill single-symbol entries written one millisecond     *)
(* apart before the run starts, for symbols W1, W2, ... outside the lists  *)
(* (the detail route sends any such symbol to the global resolver).        *)
WarmSymbol(i) == [base |-> "W" \o ToString(i), suffix |-> ""]

WarmEntry(i) ==
  LET t == 0 - (Prefill - i) - 1
  IN  [ key |-> DetailKey(WarmSymbol(i)),
        data |-> DetailBody(generateGlobalMockData(SymbolString(WarmSymbol(i)), 100, t), t),
        timestamp |-> t,
        ttl |-> CACHE_DURATION ]

WarmCache == [i \in 1..Prefill |-> WarmEntry(i)]

WarmShapes ==
  { GetDetail("W1", ""), GetDetail("AAPL", ""), GetDetail("MSFT", ""),
    GetSearch(<< "R", "e", "l" >>, ""), GetMarket("global", << "1" >>) }

WarmScope ==
  [ requests |-> WarmRequests, inflight |-> 0,
    times |-> {CACHE_DURATION}, shapes |-> WarmShapes, pcts |-> {100} ]

InitWarm == InitWith(WarmCache, {SetupSh}, {"enhanced"}, WarmScope)

NextWarm ==
  \/ HandleDetail
  \/ HandleSearch
  \/ HandleGlobal
  \/ Tick

SpecWarm == InitWarm /\ [][NextWarm]_vars

(* The aggregation of several symbols.  The unified ticker with both      *)
(* markets: limits that select several symbols (2 Indian and 1 global for  *)
(* limit=3), a negative limit (for limit=-42 the slices are slice(0, -25)  *)
(* and slice(0, -17): no Indian symbol and 1 global); the Indian route     *)
(* with two symbols; quotes that rise and fall, and the close of the       *)
(* Indian market at one minute.  The requests come one at a time: what    *)
(* is explored is the interleaving of the resolve calls of one request.    *)
TickerShapes ==
  { GetTicker(Absent, Absent, << "3" >>),
    GetTicker(Absent, Absent, << "-", "4", "2" >>),
    GetMarket("indian", << "2" >>) }

TickerScope ==
  [ requests |-> TickerRequests, inflight |-> 1,
    times |-> {MsPerMinute}, shapes |-> TickerShapes, pcts |-> {-200, 100} ]

InitTicker == InitWith(<< >>, {SetupSh}, {"enhanced"}, TickerScope)

NextTicker ==
  \/ HandleTicker
  \/ HandleIndian
  \/ Settle
  \/ Tick

SpecTicker == InitTicker /\ [][NextTicker]_vars

(* The four routes that resolve quotes, under every deployment and both    *)
(* revisions of the Indian resolver, with every adapter call free to fail. *)
AdapterShapes ==
  { GetMarket("indian", << "1" >>), GetMarket("global", << "1" >>),
    GetTicker(Absent, Absent, << "3" >>),
    GetDetail("RELIANCE", ""), GetDetail("AAPL", "") }

AdapterScope ==
  [ requests |-> AdapterRequests, inflight |-> 1,
    times |-> {1000}, shapes |-> AdapterShapes, pcts |-> {100} ]

InitAdapters == InitWith(<< >>, Deployments, {"enhanced", "basic"}, AdapterScope)

NextAdapters ==
  \/ HandleIndian
  \/ HandleGlobal
  \/ HandleTicker
  \/ HandleDetail
  \/ Settle
  \/ Tick

SpecAdapters == InitAdapters /\ [][NextAdapters]_vars

(* Malformed query parameters next to well-formed ones: a limit without   *)
(* a digit (parseInt gives NaN) and a market filter that names no market.  *)
(* On the deployment of setup.sh the global resolver has no credential and *)
(* every handler of this run completes in its first step.                  *)
MalformedShapes ==
  { GetMarket("global", << "x" >>), GetMarket("global", << "1" >>),
    GetSearch(<< "r", "e", "l" >>, "mars"), GetSearch(<< "r", "e", "l" >>, "indian") }

MalformedScope ==
  [ requests |-> MalformedRequests, inflight |-> 0,
    times |-> {1000, CACHE_DURATION}, shapes |-> MalformedShapes, pcts |-> {100} ]

InitMalformed == InitWith(<< >>, {SetupSh}, {"enhanced"}, MalformedScope)

NextMalformed ==
  \/ HandleGlobal
  \/ HandleSearch
  \/ Tick

SpecMalformed == InitMalformed /\ [][NextMalformed]_vars

(* Overlapping requests on a nearly full cache: the ticker with limit=1   *)
(* and the Indian route with limit=1 have one resolve call each            *)
(* (RELIANCE) and different cache keys; a request may arrive while         *)
(* another waits, with the same key or the other, and all of it happens    *)
(* within one lifetime.                                                    *)
OverlapShapes ==
  { GetTicker(Absent, Absent, << "1" >>), GetMarket("indian", << "1" >>) }

OverlapScope ==
  [ requests |-> OverlapRequests, inflight |-> 2,
    times |-> {1000}, shapes |-> OverlapShapes, pcts |-> {100} ]

InitOverlap == InitWith(WarmCache, {SetupSh}, {"enhanced"}, OverlapScope)

NextOverlap ==
  \/ HandleTicker
  \/ HandleIndian
  \/ Settle
  \/ Tick

SpecOverlap == InitOverlap /\ [][NextOverlap]_vars

(* The search route: queries in either case that match a symbol, a name,  *)
(* more than ten symbols of a list, or nothing, with each market filter.   *)
SearchQueries ==
  { << "r", "e", "l", "i", "a", "n", "c", "e" >>, << "R", "E", "L" >>, << "a" >>,
    << "T", "a", "t", "a" >>, << "z", "z" >>, << "b", "a", "n", "k" >>, << "I", "n", "c" >> }

SearchShapes == { GetSearch(query, m) : query \in SearchQueries, m \in {"indian", "global", ""} }

SearchScope ==
  [ requests |-> SearchRequests, inflight |-> 0,
    times |-> {1000, 2000}, shapes |-> SearchShapes, pcts |-> {100} ]

InitSearch == InitWith(<< >>, {SetupSh}, {"enhanced"}, SearchScope)

NextSearch ==
  \/ HandleSearch
  \/ Tick

SpecSearch == InitSearch /\ [][NextSearch]_vars

(* The keys of the search route: queries and market filters with and       *)
(* without a hyphen, in both cases, and the filter spelled "all".           *)
KeyShapes ==
  { GetSearch(<< "r", "e", "l" >>, "indian"),
    GetSearch(<< "R", "E", "L" >>, "indian"),
    GetSearch(<< "r", "e", "l" >>, ""),
    GetSearch(<< "r", "e", "l" >>, "all"),
    GetSearch(<< "r", "e", "l" >>, "indian-all"),
    GetSearch(<< "r", "e", "l", "-", "i", "n", "d", "i", "a", "n" >>, "") }

KeyScope ==
  [ requests |-> KeyRequests, inflight |-> 0,
    times |-> {1000}, shapes |-> KeyShapes, pcts |-> {100} ]

InitKeys == InitWith(<< >>, {SetupSh}, {"enhanced"}, KeyScope)

NextKeys ==
  \/ HandleSearch
  \/ Tick

SpecKeys == InitKeys /\ [][NextKeys]_vars

-----------------------------------------------------------------------------
(* The adapters and generators on their own: each step calls one of them on *)
(* a body or on random draws of a bounded set, and probe keeps the call.     *)

\* an object without one of its keys, and with text that is no number at it
Omit(obj, key) == [f \in DOMAIN obj \ {key} |-> obj[f]]
NotANumber(obj, key) == [obj EXCEPT ![key] = Str("N/A")]
ZeroAt(obj, key) == [obj EXCEPT ![key] = IF obj[key].k = "num" THEN Num(0) ELSE NumStr(0)]
Damaged(obj) ==
  {obj} \cup { Omit(obj, key) : key \in DOMAIN obj }
        \cup { ZeroAt(obj, key) : key \in { f \in DOMAIN obj : obj[f].k \in {"num", "numstr"} } }
        \cup { NotANumber(obj, key) : key \in { f \in DOMAIN obj : obj[f].k = "numstr" } }

EmptyObject == << >>

\* https://api.twelvedata.com/quote
TwelveQuote ==
  ("close" :> NumStr(110000)) @@ ("previous_close" :> NumStr(100000)) @@
  ("high" :> NumStr(111126)) @@ ("low" :> NumStr(99995)) @@
  ("volume" :> NumStr(1200)) @@ ("name" :> Str("Reliance Industries")) @@
  ("exchange" :> Str("NSE"))
TwelveError ==
  ("status" :> Str("error")) @@ ("code" :> Num(404)) @@ ("message" :> Str("symbol not found"))
TwelveBodies == Damaged(TwelveQuote) \cup {TwelveError, EmptyObject}

\* financialmodelingprep.com/api/v3/quote: an array of rows
FMPRow ==
  ("price" :> Num(110125)) @@ ("change" :> Num(10125)) @@ ("changesPercentage" :> Num(10125)) @@
  ("dayHigh" :> Num(111126)) @@ ("dayLow" :> Num(99995)) @@ ("previousClose" :> Num(100000)) @@
  ("volume" :> Num(1200)) @@ ("name" :> Str("Reliance Industries")) @@ ("marketCap" :> Num(74000))
FMPBodies == { << row >> : row \in Damaged(FMPRow) \cup {EmptyObject} } \cup { << >> }

\* alphavantage.co GLOBAL_QUOTE
AlphaQuote ==
  ("05. price" :> NumStr(110125)) @@ ("09. change" :> NumStr(10125)) @@
  ("10. change percent" :> NumStr(10125)) @@ ("03. high" :> NumStr(111126)) @@
  ("04. low" :> NumStr(99995)) @@ ("06. volume" :> NumStr(1200)) @@
  ("08. previous close" :> NumStr(100000))
AlphaBodies ==
  { ("Global Quote" :> quote) : quote \in Damaged(AlphaQuote) \cup {EmptyObject} }
    \cup { EmptyObject, ("Note" :> Str("API call frequency")) }

\* query1.finance.yahoo.com/v8/finance/chart
YahooBodies ==
  { [chart |-> [result |-> << >>]] } \cup
  { [chart |-> [result |-> << [ meta |-> meta,
                                indicators |-> [quote |-> << [ close |-> close,
                                                               high |-> << Num(111126), Null >>,
                                                               low |-> << Null >>,
                                                               volume |-> << Num(1200) >> ] >>] ] >>]] :
      meta \in Damaged(("previousClose" :> Num(100000))),
      close \in { << Num(109000), Num(110000) >>, << Num(110125), Null >>, << Null >>, << >> } }

\* api.polygon.io/v2/aggs
PolygonRow ==
  ("c" :> Num(110000)) @@ ("o" :> Num(100000)) @@ ("h" :> Num(111126)) @@
  ("l" :> Num(99995)) @@ ("v" :> Num(1200)) @@ ("t" :> Num(500))
PolygonBodies ==
  { ("results" :> << row >>) : row \in Damaged(PolygonRow) \cup {EmptyObject} }
    \cup { ("results" :> << >>), EmptyObject }

Adapters ==
  { "fetchYahooIndianStock", "fetchFMPIndianStock", "fetchAlphaVantageStock",
    "fetchTwelveDataStock", "fetchPolygonIndianStock", "fetchAlphaVantageIndianStock",
    "fetchGlobalStockData" }
Generators ==
  { "generateEnhancedMockData", "generateMockIndianData", "generateGlobalMockData" }

BodiesOf(fn) ==
  CASE fn = "fetchYahooIndianStock" -> YahooBodies
    [] fn = "fetchFMPIndianStock" -> FMPBodies
    [] fn = "fetchTwelveDataStock" -> TwelveBodies
    [] fn = "fetchPolygonIndianStock" -> PolygonBodies
    [] OTHER -> AlphaBodies

\* the symbols the functions are called on: every symbol of the two lists,
\* bare and with the NSE suffix, and one that no table holds
Bare(symbol) == [base |-> symbol, suffix |-> ""]
IndianProbes ==
  { [base |-> symbol, suffix |-> suffix] :
      symbol \in Range(INDIAN_SYMBOLS) \cup {"ZZZ"}, suffix \in {"", ".NS"} }
GlobalProbes == { Bare(symbol) : symbol \in Range(GLOBAL_SYMBOLS) \cup {"ZZZ"} }

ProbesOf(fn) ==
  CASE fn = "generateGlobalMockData" -> GlobalProbes
    [] fn = "fetchGlobalStockData" -> { Bare("AAPL"), Bare("DIS") }
    [] fn \in Generators -> IndianProbes
    [] OTHER -> { Bare("RELIANCE"), [base |-> "ZZZ", suffix |-> ".BO"] }

\* the values of Math.sin(Date.now() / 10000), in tenths, and of Math.random(),
\* in hundredths, on a grid of RandomSteps steps
Waves == { (20 * i) \div RandomSteps - 10 : i \in 0..RandomSteps }
Hundredths == { (99 * i) \div RandomSteps : i \in 0..RandomSteps }
Draws == [wave : Waves, price : Hundredths, volume : {0, 99}]
NoDraw == [wave |-> 0, price |-> 0, volume |-> 0]

Adapter(fn, sym, body, rnd, t) ==
  CASE fn = "fetchYahooIndianStock" -> fetchYahooIndianStock(sym, body, t)
    [] fn = "fetchFMPIndianStock" -> fetchFMPIndianStock(sym, body, t)
    [] fn = "fetchAlphaVantageStock" -> fetchAlphaVantageStock(sym, body, t)
    [] fn = "fetchTwelveDataStock" -> fetchTwelveDataStock(sym, body, t)
    [] fn = "fetchPolygonIndianStock" -> fetchPolygonIndianStock(sym, body, t)
    [] fn = "fetchAlphaVantageIndianStock" -> fetchAlphaVantageIndianStock(sym, body, t)
    [] fn = "fetchGlobalStockData" -> fetchGlobalStockData(sym.base, body, rnd, t)

Generator(fn, sym, rnd, t) ==
  CASE fn = "generateEnhancedMockData" -> generateEnhancedMockFields(sym, rnd, t)
    [] fn = "generateMockIndianData" -> generateMockIndianFields(sym, rnd, t)
    [] fn = "generateGlobalMockData" -> generateGlobalMockFields(sym.base, rnd, t)

Called(fn, sym, body, rnd, out) ==
  /\ probe = NoProbe
  /\ probe' = [fn |-> fn, sym |-> sym, body |-> body, rnd |-> rnd, at |-> now, out |-> out]
  /\ UNCHANGED <<now, istBase, env, apiModule, cache, reqs, lastResp, writer, evicted,
                 firstIn, nsets, nreq, wa, sds, scope>>

\* an adapter is called on the body of its provider's answer
CallAdapter ==
  \E fn \in Adapters :
    \E sym \in ProbesOf(fn), body \in BodiesOf(fn),
       rnd \in (IF fn = "fetchGlobalStockData" THEN Draws ELSE {NoDraw}) :
      Called(fn, sym, body, rnd, Adapter(fn, sym, body, rnd, now))

\* a generator is called
CallGenerator ==
  \E fn \in Generators :
    \E sym \in ProbesOf(fn), rnd \in Draws :
      Called(fn, sym, EmptyObject, rnd, Gives(Generator(fn, sym, rnd, now)))

ProbeScope ==
  [ requests |-> 0, inflight |-> 0, times |-> {1000},
    shapes |-> {}, pcts |-> {} ]

InitQuotes == InitWith(<< >>, {SetupSh}, {"basic"}, ProbeScope)

NextQuotes ==
  \/ CallAdapter
  \/ CallGenerator
  \/ Tick

SpecQuotes == InitQuotes /\ [][NextQuotes]_vars

(* A refresh of the oldest entry.  Two requests for the details of one     *)
(* Indian symbol missed the cache together; the first has been answered and *)
(* its entry is now the oldest of a cache one short of full, the second is  *)
(* still waiting for Yahoo when the run starts.                             *)
RefreshSymbol == [base |-> "TCS", suffix |-> ""]

\* when the two requests arrived
RefreshArrival == 0 - Prefill - 1

RefreshEntry ==
  LET t == 0 - Prefill
  IN  [ key |-> DetailKey(RefreshSymbol),
        data |-> DetailBody(AdapterQuote("indian", "enhanced", "YAHOO",
                                         SymbolString(RefreshSymbol), 100, t), t),
        timestamp |-> t,
        ttl |-> CACHE_DURATION ]

RefreshCache == << RefreshEntry >> \o SubSeq(WarmCache, 2, Prefill)

\* the request still in flight, as HandleDetailOf suspended it
RefreshPending ==
  [ n |-> 0, q |-> GetDetail(RefreshSymbol.base, RefreshSymbol.suffix),
    handler |-> "detail", key |-> DetailKey(RefreshSymbol), limit |-> 0,
    arrivedAt |-> RefreshArrival, prior |-> [q |-> NoRequest, cachedAt |-> -1],
    read |-> Null,
    tasks |-> << StartResolve("indian", "enhanced", SymbolString(RefreshSymbol),
                              100, RefreshArrival) >>,
    errors |-> << >> ]

RefreshShapes == { GetDetail("AAPL", ""), GetDetail("MSFT", ""), GetDetail("W2", "") }

RefreshScope ==
  [ requests |-> RefreshRequests, inflight |-> 1,
    times |-> {1000}, shapes |-> RefreshShapes, pcts |-> {100, -100} ]

InitRefresh ==
  /\ now = 0
  /\ istBase = FridayClose
  /\ env = SetupSh
  /\ apiModule = "enhanced"
  /\ cache = RefreshCache
  /\ reqs = << RefreshPending >>
  /\ lastResp = NoResponse
  /\ writer = [k \in MapKeys(RefreshCache) |-> NoRequest]
  /\ evicted = NoEviction
  /\ firstIn = [k \in MapKeys(RefreshCache) |->
                  0 - Len(RefreshCache) + MapIndex(RefreshCache, k)]
  /\ nsets = 0
  /\ nreq = 0
  /\ probe = NoProbe
  /\ wa = NewWhatsAppService
  /\ sds = NewStockDataService
  /\ scope = RefreshScope

NextRefresh ==
  \/ HandleDetail
  \/ Settle
  \/ Tick

SpecRefresh == InitRefresh /\ [][NextRefresh]_vars

(* The market clock: the four implementations of the Indian market hours   *)
(* are called at one instant, for every phase of the IST week (istBase is   *)
(* the minute of the week at now = 0) and a minute later.                   *)
ClockScope ==
  [ requests |-> 0, inflight |-> 0, times |-> {MsPerMinute},
    shapes |-> {}, pcts |-> {} ]

InitClock ==
  /\ now = 0
  /\ istBase \in 0..(MinutesPerWeek - 1)
  /\ env = SetupSh
  /\ apiModule = "basic"
  /\ cache = << >>
  /\ reqs = << >>
  /\ lastResp = NoResponse
  /\ writer = << >>
  /\ evicted = NoEviction
  /\ firstIn = << >>
  /\ nsets = 0
  /\ nreq = 0
  /\ probe = NoProbe
  /\ wa = NewWhatsAppService
  /\ sds = NewStockDataService
  /\ scope = ClockScope

\* each implementation is asked whether the market is open
CheckClock ==
  /\ probe = NoProbe
  /\ probe' = [ fn |-> "isIndianMarketOpen", at |-> now,
                server |-> isIndianMarketOpen(now),
                enhanced |-> isIndianMarketOpenEnhanced(now),
                basic |-> isIndianMarketOpenBasic(now),
                service |-> isMarketOpen(now) ]
  /\ UNCHANGED <<now, istBase, env, apiModule, cache, reqs, lastResp, writer, evicted,
                 firstIn, nsets, nreq, wa, sds, scope>>

NextClock ==
  \/ CheckClock
  \/ Tick

SpecClock == InitClock /\ [][NextClock]_vars

-----------------------------------------------------------------------------
(* WhatsAppService *)

\* the server side of a step of a browser service
ServerIdle ==
  UNCHANGED <<istBase, env, apiModule, cache, reqs, lastResp, writer, evicted,
              firstIn, nsets, nreq, probe, scope>>

\* what fetch gives: a rejection, or a response with a status and a body.  Of
\* the body only `success` is read; a body is a JSON object, the JSON null, or
\* text that is no JSON
JsonObject(success) == [k |-> "object", success |-> success]
JsonNull == [k |-> "null", success |-> Undefined]
NotJson == [k |-> "text", success |-> Undefined]
NetworkError == [rejected |-> TRUE, status |-> 0, body |-> NotJson]
Http(status, body) == [rejected |-> FALSE, status |-> status, body |-> body]

\* response.ok
ResponseOk(resp) == ~resp.rejected /\ resp.status \in 200..299

\* `${alert.symbol}_${alert.type}_${alert.time}`: WhatsAppService.js 188
messageId(alert) == alert.symbol \o "_" \o alert.type \o "_" \o alert.time

Alert(id, symbol, type, time) ==
  [id |-> id, symbol |-> symbol, type |-> type, time |-> time]

\* this.rateLimitTracker.get(phoneNumber), [] when it has none
TimestampsOf(tracker, phoneNumber) ==
  IF phoneNumber \in DOMAIN tracker THEN tracker[phoneNumber] ELSE << >>

\* checkRateLimit(phoneNumber) at time t: WhatsAppService.js 281-295
checkRateLimit(tracker, phoneNumber, t) ==
  LET windowStart    == t - 60 * 1000
      timestamps     == TimestampsOf(tracker, phoneNumber)
      recentMessages == SelectSeq(timestamps, LAMBDA ts : ts > windowStart)
  IN  [ ok |-> Len(recentMessages) < rateLimitPerMinute,
        tracker |-> (phoneNumber :> recentMessages) @@ tracker ]

\* updateRateLimit(phoneNumber) at time t: WhatsAppService.js 297-303
updateRateLimit(tracker, phoneNumber, t) ==
  (phoneNumber :> Append(TimestampsOf(tracker, phoneNumber), t)) @@ tracker

\* sendMessage(phoneNumber, message, retries) from the settlement of its fetch:
\* the value it returns, or the delay after which it calls itself with
\* retries + 1.  WhatsAppService.js 244-279
sendMessage(retries, resp, t) ==
  LET again  == [kind |-> "delay", due |-> t + retryDelay * (retries + 1), value |-> Undefined]
      caught == IF retries < maxRetries
                  THEN again
                  ELSE [kind |-> "return", due |-> 0, value |-> Bool(FALSE)]
  IN  IF resp.rejected THEN caught
      ELSE IF ResponseOk(resp)
        THEN IF resp.body.k = "object"
               THEN [kind |-> "return", due |-> 0,
                     value |-> JsOr(resp.body.success, Bool(TRUE))]
               ELSE caught   \* response.json() rejects, or result.success throws on null
      ELSE IF resp.status = 429 /\ retries < maxRetries THEN again
      ELSE caught

\* a call as it stands before its first fetch
NewCall(w, fn, owner, phone, id, alert) ==
  [ n |-> w.ncalls + 1, fn |-> fn, owner |-> owner, phone |-> phone, id |-> id,
    alert |-> alert, retries |-> 0, st |-> "fetch", due |-> 0,
    attempts |-> 0, oks |-> 0, afterOk |-> 0 ]

\* call c returns value; sendBulkAlerts pushes the result of the call it
\* awaited and starts its delay(200): WhatsAppService.js 310-314
Return(w, c, value, reason, t) ==
  LET r == [ n |-> c.n, fn |-> c.fn, owner |-> c.owner, phone |-> c.phone, id |-> c.id,
             alert |-> c.alert, value |-> value, reason |-> reason, rejected |-> FALSE,
             attempts |-> c.attempts, oks |-> c.oks, afterOk |-> c.afterOk ]
      b == w.bulk
  IN  [w EXCEPT !.returned = r,
                !.bulk = IF c.owner = "bulk"
                           THEN [b EXCEPT !.results = Append(@, [ phoneNumber |-> c.phone,
                                                                  alert |-> c.alert,
                                                                  success |-> value ]),
                                          !.reasons = Append(@, reason),
                                          !.st = "pause", !.due = t + BulkPause]
                           ELSE b]

\* sendAlert(alert, phoneNumber) up to its await: WhatsAppService.js 172-193
BeginAlert(w, owner, alert, phoneNumber, t) ==
  LET targetPhone == IF phoneNumber = "" THEN w.phoneNumber ELSE phoneNumber
      c   == NewCall(w, "sendAlert", owner, targetPhone, messageId(alert), alert.id)
      w1  == [w EXCEPT !.ncalls = @ + 1]
      chk == checkRateLimit(w.rateLimitTracker, targetPhone, t)
      w2  == [w1 EXCEPT !.rateLimitTracker = chk.tracker]
  IN  IF ~w.isInitialized THEN Return(w1, c, Bool(FALSE), "uninitialized", t)
      ELSE IF ~chk.ok THEN Return(w2, c, Bool(FALSE), "rateLimit", t)
      ELSE IF c.id \in w.sentMessages THEN Return(w2, c, Bool(FALSE), "duplicate", t)
      ELSE [w2 EXCEPT !.calls = Append(@, [c EXCEPT !.attempts = 1])]

\* the fetch of call i settles with resp: sendMessage goes on, and sendAlert
\* after it (WhatsAppService.js 194-203)
Responded(w, i, resp, t) ==
  LET c    == w.calls[i]
      c1   == [c EXCEPT !.oks = IF ResponseOk(resp) THEN @ + 1 ELSE @]
      out  == sendMessage(c.retries, resp, t)
      rest == SubSeq(w.calls, 1, i - 1) \o SubSeq(w.calls, i + 1, Len(w.calls))
      w1   == [w EXCEPT !.calls = rest]
  IN  IF out.kind = "delay"
        THEN [w EXCEPT !.calls[i] = [c1 EXCEPT !.st = "delay", !.due = out.due]]
      ELSE IF c.fn = "sendMessage" THEN Return(w1, c1, out.value, "sendMessage", t)
      ELSE IF Truthy(out.value)
        THEN Return([w1 EXCEPT !.sentMessages = @ \cup {c.id},
                               !.rateLimitTracker = updateRateLimit(@, c.phone, t),
                               !.delivered = Append(@, [phone |-> c.phone, id |-> c.id,
                                                        at |-> t])],
                    c1, out.value, "sent", t)
      ELSE Return(w1, c1, out.value, "failed", t)

\* the delay of call i is over: sendMessage(phoneNumber, message, retries + 1)
Retried(w, i) ==
  LET c == w.calls[i]
  IN  [w EXCEPT !.calls[i] =
         [c EXCEPT !.st = "fetch", !.retries = @ + 1, !.attempts = @ + 1,
                   !.afterOk = IF c.oks > 0 THEN @ + 1 ELSE @]]

\* the body of the loops of sendBulkAlerts at (i, j): WhatsAppService.js 308-310
BulkSend(w, t) ==
  LET b == w.bulk
  IN  IF b.i > Len(b.phoneNumbers) \/ b.alerts = << >>
        THEN [w EXCEPT !.bulk.st = "done"]
        ELSE BeginAlert([w EXCEPT !.bulk.st = "sending"], "bulk",
                        b.alerts[b.j], b.phoneNumbers[b.i], t)

\* the delay(200) of sendBulkAlerts is over: the next alert, or the next number
BulkResumed(w, t) ==
  LET b  == w.bulk
      b2 == IF b.j < Len(b.alerts) THEN [b EXCEPT !.j = @ + 1]
            ELSE [b EXCEPT !.i = @ + 1, !.j = 1]
  IN  BulkSend([w EXCEPT !.bulk = b2], t)

\* the pending timers of this.delay(ms): WhatsAppService.js 347
Dues(w) ==
  { w.calls[i].due : i \in { k \in DOMAIN w.calls : w.calls[k].st = "delay" } }
    \cup (IF w.bulk.st = "pause" THEN {w.bulk.due} ELSE {})

Later(a, b) == IF a > b THEN a ELSE b

\* initialize(config): WhatsAppService.js 16-35; healthy is whether
\* testConnection succeeds
WaInitialize ==
  /\ ~wa.isInitialized
  /\ \E phone \in scope.phones, healthy \in scope.health :
       wa' = [wa EXCEPT !.phoneNumber = phone, !.isInitialized = healthy]
  /\ UNCHANGED <<now, sds>>
  /\ ServerIdle

\* a caller invokes sendAlert(alert, phoneNumber)
CallSendAlert ==
  /\ wa.ncalls < scope.calls
  /\ Len(wa.calls) < scope.overlap
  /\ \E alert \in scope.alerts, phone \in scope.phones :
       wa' = BeginAlert(wa, "user", alert, phone, now)
  /\ UNCHANGED <<now, sds>>
  /\ ServerIdle

\* a caller invokes sendMessage(phoneNumber, message)
CallSendMessage ==
  /\ wa.ncalls < scope.calls
  /\ Len(wa.calls) < scope.overlap
  /\ \E phone \in scope.phones :
       wa' = [wa EXCEPT !.ncalls = @ + 1,
                        !.calls = Append(@, [NewCall(wa, "sendMessage", "user", phone, "", "")
                                               EXCEPT !.attempts = 1])]
  /\ UNCHANGED <<now, sds>>
  /\ ServerIdle

\* a caller invokes sendBulkAlerts(alerts, phoneNumbers)
CallSendBulkAlerts ==
  /\ wa.bulk.st \in {"idle", "done"}
  /\ wa.bulk.runs < scope.calls
  /\ \E alerts \in scope.bulkAlerts, phoneNumbers \in scope.bulkPhones :
       wa' = BulkSend([wa EXCEPT !.bulk = [NoBulk EXCEPT !.alerts = alerts,
                                                          !.phoneNumbers = phoneNumbers,
                                                          !.runs = wa.bulk.runs + 1]],
                      now)
  /\ UNCHANGED <<now, sds>>
  /\ ServerIdle

\* the fetch of a call in flight settles
WaResponds ==
  /\ \E i \in DOMAIN wa.calls, resp \in scope.responses :
       /\ wa.calls[i].st = "fetch"
       /\ wa' = Responded(wa, i, resp, now)
  /\ UNCHANGED <<now, sds>>
  /\ ServerIdle

\* the earliest pending timer of a retry fires
WaRetries ==
  /\ \E i \in DOMAIN wa.calls :
       /\ wa.calls[i].st = "delay"
       /\ \A d \in Dues(wa) : wa.calls[i].due <= d
       /\ now' = Later(now, wa.calls[i].due)
       /\ wa' = Retried(wa, i)
  /\ UNCHANGED sds
  /\ ServerIdle

\* the pause of sendBulkAlerts is the earliest pending timer and fires
WaBulkResumes ==
  /\ wa.bulk.st = "pause"
  /\ \A d \in Dues(wa) : wa.bulk.due <= d
  /\ now' = Later(now, wa.bulk.due)
  /\ wa' = BulkResumed(wa, now')
  /\ UNCHANGED sds
  /\ ServerIdle

\* a run of the browser services: the server plays no part
InitService(w, d, sc) ==
  /\ now = 0
  /\ istBase = FridayClose
  /\ env = SetupSh
  /\ apiModule = "enhanced"
  /\ cache = << >>
  /\ reqs = << >>
  /\ lastResp = NoResponse
  /\ writer = << >>
  /\ evicted = NoEviction
  /\ firstIn = << >>
  /\ nsets = 0
  /\ nreq = 0
  /\ probe = NoProbe
  /\ wa = w
  /\ sds = d
  /\ scope = sc

Phones == {"+911", "+912"}

\* every way a send can end
Responses ==
  { NetworkError, Http(429, NotJson), Http(500, NotJson),
    Http(200, JsonObject(Bool(TRUE))), Http(200, JsonObject(Undefined)),
    Http(200, JsonObject(Str("queued"))), Http(200, JsonNull), Http(204, NotJson) }

(* sendMessage on its own: calls that overlap, every response.              *)
SendScope ==
  [ calls |-> SendCalls, overlap |-> 2, phones |-> {"+911"}, alerts |-> {},
    health |-> {TRUE}, responses |-> Responses, bulkAlerts |-> {}, bulkPhones |-> {} ]

InitSend == InitService(NewWhatsAppService, NewStockDataService, SendScope)

NextSend ==
  \/ CallSendMessage
  \/ WaResponds
  \/ WaRetries

SpecSend == InitSend /\ [][NextSend]_vars

(* sendAlert: calls that overlap, for one alert or for several, to a number  *)
(* that has been sent one alert a second for the last 29 seconds and to a    *)
(* number that has been sent none.                                           *)
EarlierAlert(i) == Alert("e" \o ToString(i), "SYM" \o ToString(i), "results", "09:15")

\* the alerts sent before the run starts, one short of the limit
Earlier == rateLimitPerMinute - 1

EarlierAt(i) == 0 - (Earlier - i + 1) * 1000

SentEarlier ==
  [ NewWhatsAppService EXCEPT
      !.isInitialized = TRUE,
      !.phoneNumber = "+911",
      !.sentMessages = { messageId(EarlierAlert(i)) : i \in 1..Earlier },
      !.rateLimitTracker = ("+911" :> [i \in 1..Earlier |-> EarlierAt(i)]),
      !.delivered = [i \in 1..Earlier |->
                       [phone |-> "+911", id |-> messageId(EarlierAlert(i)),
                        at |-> EarlierAt(i)]] ]

Alerts ==
  { Alert("a1", "RELIANCE", "results", "09:15"), Alert("a2", "TCS", "results", "09:15") }

AlertScope ==
  [ calls |-> AlertCalls, overlap |-> 2, phones |-> Phones, alerts |-> Alerts,
    health |-> {TRUE},
    responses |-> { NetworkError, Http(200, JsonObject(Bool(TRUE))) },
    bulkAlerts |-> {}, bulkPhones |-> {} ]

InitAlerts == InitService(SentEarlier, NewStockDataService, AlertScope)

NextAlerts ==
  \/ CallSendAlert
  \/ WaResponds
  \/ WaRetries

SpecAlerts == InitAlerts /\ [][NextAlerts]_vars

(* sendBulkAlerts: one or two alerts to one or two numbers, before or after  *)
(* initialize, each send answered at once or after retries.                  *)
BulkScope ==
  [ calls |-> BulkRuns, overlap |-> 1, phones |-> {"+911"}, alerts |-> {},
    health |-> {TRUE, FALSE},
    responses |-> { NetworkError, Http(200, JsonObject(Bool(TRUE))) },
    bulkAlerts |-> { << Alert("a1", "RELIANCE", "results", "09:15") >>,
                     << Alert("a1", "RELIANCE", "results", "09:15"),
                        Alert("a2", "TCS", "results", "09:15") >> },
    bulkPhones |-> { << "+911" >>, << "+911", "+912" >> } ]

InitBulk == InitService(NewWhatsAppService, NewStockDataService, BulkScope)

NextBulk ==
  \/ WaInitialize
  \/ CallSendBulkAlerts
  \/ WaResponds
  \/ WaRetries
  \/ WaBulkResumes

SpecBulk == InitBulk /\ [][NextBulk]_vars

-----------------------------------------------------------------------------
(* StockDataService *)

\* the keys of this.apis: StockDataService.js 39-91
ApiNames == {"nse", "bse", "yahoo", "alphavantage"}

\* config.sources || ['nse', 'bse', 'yahoo', 'alphavantage']: StockDataService.js 18
DefaultSources == [isArray |-> TRUE, items |-> << "nse", "bse", "yahoo", "alphavantage" >>]

\* `quote_${symbol}_${source}`: StockDataService.js 154
QuoteKey(symbol, source) == "quote_" \o symbol \o "_" \o source

\* what the quote and indices endpoints answer: a JSON object, the JSON null,
\* or text that is no JSON
QuoteJson(symbol) == [k |-> "object", symbol |-> symbol]
QuoteNull == [k |-> "null", symbol |-> ""]
QuoteText == [k |-> "text", symbol |-> ""]
FetchRejects == [rejected |-> TRUE, status |-> 0, body |-> QuoteText]

\* source.toUpperCase()
SourceUpper(source) ==
  CASE source = "nse" -> "NSE" [] source = "bse" -> "BSE"
    [] source = "yahoo" -> "YAHOO" [] source = "alphavantage" -> "ALPHAVANTAGE"
    [] OTHER -> source

\* enrichStockData(data, source): StockDataService.js 339-353, without the
\* formatted fields
enrichStockData(data, source, t) ==
  [ symbol |-> data.symbol, source |-> SourceUpper(source), timestamp |-> IsoString(t),
    isMarketOpen |-> isMarketOpen(t) ]

\* cleanCache() at time t: StockDataService.js 424-439
cleanCache(c, t) == SelectSeq(c, LAMBDA item : ~(t - item.timestamp > cacheTimeout))

\* setCacheItem(key, data) at time t: StockDataService.js 412-422
setCacheItem(c, key, data, t) ==
  LET c1 == IF Len(c) >= maxCacheSize THEN cleanCache(c, t) ELSE c
  IN  MapSet(c1, key, [key |-> key, data |-> data, timestamp |-> t])

\* the cache has an entry for key that is younger than cacheTimeout:
\* StockDataService.js 157-162, 215-220
FreshIn(c, key, t) == MapHas(c, key) /\ t - c[MapIndex(c, key)].timestamp < cacheTimeout

\* a call settles: it resolves to a quote, to the indices or to null, or rejects
Settled(d, c, outcome, value) ==
  [d EXCEPT !.settled = [ n |-> c.n, fn |-> c.fn, symbol |-> c.symbol, source |-> c.source,
                          outcome |-> outcome, value |-> value,
                          requests |-> c.requests, depth |-> c.depth ]]

RECURSIVE BeginQuote(_, _, _)
RECURSIVE CaughtQuote(_, _, _)
\* getStockQuote(symbol, source) up to its await: StockDataService.js 153-167
BeginQuote(d, c, t) ==
  LET cacheKey == QuoteKey(c.symbol, c.source)
  IN  IF FreshIn(d.cache, cacheKey, t)
        THEN Settled(d, c, "quote", d.cache[MapIndex(d.cache, cacheKey)].data)
      ELSE IF ~d.apis \/ c.source \notin ApiNames
        THEN CaughtQuote(d, c, t)      \* this.apis[source], api.baseUrl throw
      ELSE [d EXCEPT !.calls = Append(@, [c EXCEPT !.requests = @ + 1])]

\* the catch block of getStockQuote: StockDataService.js 181-190
CaughtQuote(d, c, t) ==
  IF c.source = "nse"
    THEN IF ~d.sources.isArray
           THEN Settled(d, c, "rejected", Null)   \* this.sources.includes is not a function
         ELSE IF \E k \in DOMAIN d.sources.items : d.sources.items[k] = "bse"
           THEN BeginQuote(d, [c EXCEPT !.source = "bse", !.depth = @ + 1], t)
         ELSE Settled(d, c, "null", Null)
    ELSE Settled(d, c, "null", Null)

\* getMarketIndices() up to its await: StockDataService.js 212-224
BeginIndices(d, c, t) ==
  IF FreshIn(d.cache, "market_indices", t)
    THEN Settled(d, c, "indices", d.cache[MapIndex(d.cache, "market_indices")].data)
  ELSE IF ~d.apis
    THEN Settled(d, c, "indices", Str("fallback"))   \* this.apis.nse throws
  ELSE [d EXCEPT !.calls = Append(@, [c EXCEPT !.requests = @ + 1])]

\* the fetch of call i settles with resp: StockDataService.js 169-190, 226-237
Fetched(d, i, resp, t) ==
  LET c    == d.calls[i]
      rest == SubSeq(d.calls, 1, i - 1) \o SubSeq(d.calls, i + 1, Len(d.calls))
      d1   == [d EXCEPT !.calls = rest]
      good == ResponseOk(resp) /\ resp.body.k # "text"
      \* enrichStockData reads data.price: it throws on null
      quote  == enrichStockData(resp.body, c.source, t)
      cached == setCacheItem(d.cache, QuoteKey(c.symbol, c.source), quote, t)
      listed == setCacheItem(d.cache, "market_indices", Str("indices"), t)
  IN  IF c.fn = "getMarketIndices"
        THEN IF good
               THEN Settled([d1 EXCEPT !.cache = listed, !.lastSize = Len(listed)],
                            c, "indices", Str("indices"))
               ELSE Settled(d1, c, "indices", Str("fallback"))
      ELSE IF good /\ resp.body.k = "object"
        THEN Settled([d1 EXCEPT !.cache = cached, !.lastSize = Len(cached)],
                     c, "quote", quote)
      ELSE CaughtQuote(d1, c, t)

NewFetch(d, fn, symbol, source) ==
  [n |-> d.ncalls + 1, fn |-> fn, symbol |-> symbol, source |-> source,
   requests |-> 0, depth |-> 0]

\* initialize(config): StockDataService.js 16-35, 36-91
SdsInitialize ==
  /\ ~sds.isInitialized
  /\ \E sources \in scope.sourceLists :
       sds' = [sds EXCEPT !.sources = sources, !.apis = TRUE, !.isInitialized = TRUE]
  /\ UNCHANGED <<now, wa>>
  /\ ServerIdle

\* a caller invokes getStockQuote(symbol, source)
CallGetStockQuote ==
  /\ sds.ncalls < scope.calls
  /\ Len(sds.calls) < scope.overlap
  /\ \E symbol \in scope.symbols, source \in scope.sources :
       sds' = BeginQuote([sds EXCEPT !.ncalls = @ + 1],
                         NewFetch(sds, "getStockQuote", symbol, source), now)
  /\ UNCHANGED <<now, wa>>
  /\ ServerIdle

\* a caller invokes getMarketIndices()
CallGetMarketIndices ==
  /\ sds.ncalls < scope.calls
  /\ Len(sds.calls) < scope.overlap
  /\ sds' = BeginIndices([sds EXCEPT !.ncalls = @ + 1],
                         NewFetch(sds, "getMarketIndices", "", "nse"), now)
  /\ UNCHANGED <<now, wa>>
  /\ ServerIdle

\* the fetch of a call in flight settles
SdsResponds ==
  /\ \E i \in DOMAIN sds.calls, resp \in scope.responses :
       sds' = Fetched(sds, i, resp, now)
  /\ UNCHANGED <<now, wa>>
  /\ ServerIdle

(* The cache of an initialized service that has fetched Prefill quotes in   *)
(* the last second, one millisecond apart.                                  *)
PrefetchedQuote(i) ==
  LET t == 0 - (Prefill - i) - 1
      symbol == "S" \o ToString(i)
  IN  [ key |-> QuoteKey(symbol, "nse"),
        data |-> enrichStockData(QuoteJson(symbol), "nse", t),
        timestamp |-> t ]

Prefetched ==
  [ NewStockDataService EXCEPT
      !.isInitialized = TRUE, !.apis = TRUE, !.sources = DefaultSources,
      !.cache = [i \in 1..Prefill |-> PrefetchedQuote(i)],
      !.lastSize = Prefill ]

(* getStockQuote and getMarketIndices, before and after initialize, on an   *)
(* empty cache and on one that is nearly full.                              *)
StockScope ==
  [ calls |-> QuoteCalls, overlap |-> 2, times |-> {cacheTimeout + 1},
    symbols |-> {"TCS", "INFY"}, sources |-> {"nse", "bse"},
    sourceLists |-> { DefaultSources, [isArray |-> TRUE, items |-> << "nse" >>] },
    responses |-> { FetchRejects, Http(500, QuoteText), Http(200, QuoteText),
                    Http(200, QuoteNull), Http(200, QuoteJson("TCS")) } ]

InitStockData ==
  /\ istBase = FridayClose
  /\ \E d \in {NewStockDataService, Prefetched} :
       InitService(NewWhatsAppService, d, StockScope)

NextStockData ==
  \/ SdsInitialize
  \/ CallGetStockQuote
  \/ CallGetMarketIndices
  \/ SdsResponds
  \/ Tick

SpecStockData == InitStockData /\ [][NextStockData]_vars

-----------------------------------------------------------------------------
(* Properties *)

\* every resolve call of the run: those of the suspended requests and those of
\* the request answered last
AllTasks ==
  UNION { Range(reqs[i].tasks) : i \in DOMAIN reqs } \cup Range(lastResp.tasks)

IndianCalls == { task \in AllTasks : task.chain = "indian" }

\* the exchanges of the run still on record: the one answered last and the
\* suspended ones
Exchange(r, answered, fromCache, body) ==
  [ n |-> r.n, q |-> r.q, handler |-> r.handler, key |-> r.key, limit |-> r.limit,
    arrivedAt |-> r.arrivedAt, prior |-> r.prior, read |-> r.read,
    tasks |-> r.tasks, answered |-> answered, fromCache |-> fromCache, body |-> body ]

Exchanges ==
  { Exchange(lastResp, TRUE, lastResp.fromCache, lastResp.body) }
    \cup { Exchange(reqs[i], FALSE, FALSE, Null) : i \in DOMAIN reqs }

\* the exchange of the request received last
Latest == CHOOSE x \in Exchanges : x.n = nreq

\* a step in which a request arrives and its handler calls getCachedData
Looked == nreq' = nreq + 1 /\ Latest'.key # ""

IsAggregation(q) == q.route \in {"indian", "global", "ticker"}

\* the same parameters again, after the answer to the first was cached
Repeats(x) ==
  /\ x.n > 0
  /\ x.prior.q = x.q
  /\ x.prior.cachedAt >= 0

(* C1: in a resolve call of the Indian chain, once an adapter has returned  *)
(* a quote no adapter later in the order is invoked, and the call returns   *)
(* exactly the quote that adapter produced.                                 *)
C1_FirstQuoteReturned ==
  \A task \in IndianCalls : \A i \in DOMAIN task.calls :
    task.calls[i].out = "ok"
      => /\ i = Len(task.calls)
         /\ task.st = "done"
         /\ task.produced = << task.result >>

\* an adapter has returned a quote while adapters after it were still untried
C1_Witness ==
  \E task \in IndianCalls :
    /\ task.st = "done"
    /\ Len(task.produced) = 1
    /\ Len(task.calls) < Len(task.providers)
    /\ task.calls[Len(task.calls)].out = "ok"

(* C2: a resolve call in which no adapter returned a quote (every adapter   *)
(* disabled or failed) returns a synthetic quote whose mock field is true,  *)
(* in the Indian chain and in the global resolver.                          *)
C2_FallbackIsMock ==
  \A task \in AllTasks :
    (task.st = "done" /\ task.produced = << >>) => IsMock(task.result)

(* C3: an aggregation request with the parameters of the request answered   *)
(* just before it, arriving less than CACHE_DURATION after that answer was   *)
(* cached, is answered from the cache and starts no resolve call.           *)
C3_RepeatFromCache ==
  \A x \in Exchanges :
    (Repeats(x) /\ IsAggregation(x.q) /\ x.arrivedAt - x.prior.cachedAt < CACHE_DURATION)
      => (x.answered /\ x.fromCache /\ x.tasks = << >>)

\* the same aggregation request again, later but within the lifetime, answered
\* from the cache
C3_Witness ==
  /\ Repeats(lastResp)
  /\ IsAggregation(lastResp.q)
  /\ lastResp.arrivedAt > lastResp.prior.cachedAt
  /\ lastResp.arrivedAt - lastResp.prior.cachedAt < CACHE_DURATION
  /\ lastResp.fromCache

(* C4: once a set has returned the cache holds at most CACHE_MAX_ENTRIES    *)
(* entries, a set removes at most one entry, and the entry it removes was   *)
(* inserted before every entry that stays.                                  *)
C4_CeilingOldestOut ==
  /\ Len(cache) <= CACHE_MAX_ENTRIES
  /\ evicted.size <= CACHE_MAX_ENTRIES
  /\ Cardinality(evicted.gone) <= 1
  /\ \A g \in evicted.gone : \A i \in DOMAIN cache :
       firstIn[g] < firstIn[cache[i].key]

\* a set has overflowed the full cache and removed an entry
C4_Witness ==
  /\ evicted.gone # {}
  /\ evicted.size = CACHE_MAX_ENTRIES
  /\ Len(cache) = CACHE_MAX_ENTRIES

\* the providers array a resolve call of the Indian chain starts from
IndianProviders == IF apiModule = "enhanced" THEN ProvidersEnhanced ELSE ProvidersBasic

PriorityOf(name) ==
  IndianProviders[CHOOSE i \in DOMAIN IndianProviders : IndianProviders[i].name = name].priority

(* C5: in a resolve call of the Indian chain the adapters invoked are in    *)
(* strictly ascending priority (so none is invoked twice), each one but the *)
(* last has failed, and no enabled adapter of lower priority number than an *)
(* invoked one was passed over.                                             *)
C5_AscendingPriority ==
  \A task \in IndianCalls :
    /\ \A i, j \in DOMAIN task.calls :
         i < j => /\ PriorityOf(task.calls[i].name) < PriorityOf(task.calls[j].name)
                  /\ task.calls[i].out = "failed"
    /\ \A j \in DOMAIN task.calls : \A k \in DOMAIN IndianProviders :
         (IndianProviders[k].enabled
            /\ IndianProviders[k].priority < PriorityOf(task.calls[j].name))
           => \E i \in 1..(j - 1) : task.calls[i].name = IndianProviders[k].name

\* a call that has gone through three adapters or more
C5_Witness ==
  \E task \in IndianCalls :
    /\ Len(task.calls) >= 3
    /\ task.calls[1].out = "failed"
    /\ task.calls[2].out = "failed"

\* the credential an adapter requires: process.env as deployed
NeedsCredential(name) == name \in {"FMP", "TWELVE", "ALPHA", "POLYGON", "ALPHA_GLOBAL"}

CredentialOf(name) ==
  CASE name = "FMP" -> env.FMP
    [] name = "TWELVE" -> env.TWELVE
    [] name = "POLYGON" -> env.POLYGON
    [] name \in {"ALPHA", "ALPHA_GLOBAL"} -> env.ALPHA

Unconfigured(name) == NeedsCredential(name) /\ CredentialOf(name) \in {"", "demo"}

(* C6: an adapter whose credential is absent or the placeholder "demo" is   *)
(* never invoked in a resolve call and no upstream request is issued for    *)
(* it.                                                                      *)
C6_UnconfiguredExcluded ==
  \A task \in AllTasks :
    /\ \A i \in DOMAIN task.calls : ~Unconfigured(task.calls[i].name)
    /\ \A i \in DOMAIN task.http : ~Unconfigured(task.http[i])

\* an entry for key younger than its own ttl at time t
FreshEntry(c, key, t) ==
  \E i \in DOMAIN c : c[i].key = key /\ t - c[i].timestamp < c[i].ttl

(* C7: getCachedData(key) returns a payload exactly when the Map holds an   *)
(* entry for key whose age is strictly less than its own ttl, the payload   *)
(* is the one stored, and the read leaves the entry (its timestamp          *)
(* included) as it was.                                                     *)
C7_GetIffFresh ==
  [][ Looked =>
        /\ (Latest'.read # Null) <=> FreshEntry(cache, Latest'.key, now)
        /\ (Latest'.read # Null) =>
             /\ \E i \in DOMAIN cache :
                  cache[i].key = Latest'.key /\ cache[i].data = Latest'.read
             /\ cache' = cache ]_vars

\* a search entry read when its age equals LONG_CACHE_DURATION: a miss
C7_Witness ==
  /\ Repeats(lastResp)
  /\ lastResp.handler = "search"
  /\ lastResp.arrivedAt - lastResp.prior.cachedAt = LONG_CACHE_DURATION
  /\ lastResp.read = Null
  /\ ~lastResp.fromCache

\* c less its entry for key
Without(c, key) ==
  LET Other(e) == e.key # key
  IN  SelectSeq(c, Other)

\* a step in which an arriving request misses the cache and is suspended in its
\* resolve calls: what the step does to the Map is what getCachedData did
MissedAndSuspended ==
  /\ Looked
  /\ Latest'.read = Null
  /\ ~Latest'.answered

(* C8: a getCachedData that misses leaves the Map as it was.                *)
C8_MissChangesNothing ==
  [][ MissedAndSuspended => cache' = cache ]_vars

(* C8, amended: a getCachedData that misses leaves every entry of another   *)
(* key as it was; it leaves the Map as it was when key has no entry, and    *)
(* removes the entry of key when that entry has expired.                    *)
C8_MissRemovesOnlyExpired ==
  [][ (Looked /\ Latest'.read = Null) =>
        /\ Without(cache', Latest'.key) = Without(cache, Latest'.key)
        /\ ~Latest'.answered => cache' = Without(cache, Latest'.key)
        /\ (~Latest'.answered /\ ~MapHas(cache, Latest'.key)) => cache' = cache ]_vars

\* a request suspended after it found the entry of its key expired: the entry
\* is gone
C8_Witness ==
  \E i \in DOMAIN reqs :
    /\ Repeats(reqs[i])
    /\ reqs[i].arrivedAt - reqs[i].prior.cachedAt >= CACHE_DURATION
    /\ reqs[i].read = Null
    /\ ~MapHas(cache, reqs[i].key)

\* what the routes make of the parameters of an aggregation request
Combination(q) ==
  << q.route, IncludeFlag(q.indian), IncludeFlag(q.global),
     LimitOf(q.limit, IF q.route = "ticker" THEN DEFAULT_LIMIT_TICKER
                      ELSE DEFAULT_LIMIT_MARKET) >>

(* C9: an aggregation request answered from the cache is answered from an   *)
(* entry written by a request of the same route, inclusion flags and parsed *)
(* limit.                                                                   *)
C9_NoSharedEntry ==
  (lastResp.fromCache /\ IsAggregation(lastResp.q))
    => Combination(writer[lastResp.key]) = Combination(lastResp.q)

\* a request answered from the entry another request wrote (limit=1x from
\* limit=1) while the cache was open to requests of other limits
C9_Witness ==
  /\ lastResp.fromCache
  /\ IsAggregation(lastResp.q)
  /\ writer[lastResp.key] # lastResp.q

\* where a route puts cached and cacheAge: the top level or the summary
Annotated(body) == IF "cached" \in DOMAIN body THEN body ELSE body.summary

WrittenAt(c, key) == c[CHOOSE i \in DOMAIN c : c[i].key = key].timestamp

(* C10: a response of the ticker, indian, global or detail route answered   *)
(* from the cache carries cached = true and a cacheAge that is the whole    *)
(* number of seconds since the entry was written, at least 0 and less than  *)
(* the lifetime in seconds.                                                 *)
C10_CacheAgeInSeconds ==
  [][ (Looked /\ Latest'.read # Null
         /\ Latest'.handler \in {"ticker", "indian", "global", "detail"}) =>
        LET a == Annotated(Latest'.body)
        IN  /\ "cached" \in DOMAIN a /\ a.cached = TRUE
            /\ "cacheAge" \in DOMAIN a
            /\ a.cacheAge.k = "num"
            /\ a.cacheAge.v = (now - WrittenAt(cache, Latest'.key)) \div 1000
            /\ a.cacheAge.v >= 0
            /\ a.cacheAge.v < CACHE_DURATION \div 1000 ]_vars

\* the answer a client that follows redirects gets to a ticker request for the
\* Indian market alone: the answer of /api/stocks/indian to the request the
\* Location header names (server.js 252-254)
IndianOnlyTicker(q) ==
  q.route = "ticker" /\ IncludeFlag(q.indian) /\ ~IncludeFlag(q.global)

AnswersIndianOnlyTicker(x) ==
  /\ x.n > 0
  /\ x.handler = "indian"
  /\ x.status = 200
  /\ IndianOnlyTicker(x.prior.q)
  /\ x.limit = LimitOf(x.prior.q.limit, DEFAULT_LIMIT_TICKER)

(* C11: the response to a ticker request with indian=true, global=false and *)
(* limit L has summary.indian = data.length, summary.global = 0 and         *)
(* data.length <= L.                                                        *)
C11_IndianOnlySummary ==
  AnswersIndianOnlyTicker(lastResp) =>
    LET b == lastResp.body
    IN  /\ "indian" \in DOMAIN b.summary
        /\ b.summary.indian = Len(b.data)
        /\ "global" \in DOMAIN b.summary
        /\ b.summary.global = 0
        /\ Len(b.data) <= lastResp.limit

Min(a, b) == IF a < b THEN a ELSE b

\* the first n elements of a list, all of them when it has fewer, none for n <= 0
FirstN(list, n) == SubSeq(list, 1, Min(n, Len(list)))

\* a ticker request for both markets that missed the cache
MissedBothMarkets(x) ==
  /\ x.n > 0
  /\ x.handler = "ticker"
  /\ x.key # ""
  /\ x.read = Null

SymbolsOf(tasks) == [i \in DOMAIN tasks |-> tasks[i].symbol]

(* C12: on a cache miss of a ticker request for both markets with limit L   *)
(* the resolve calls started are those of the first ceil(0.6 L) Indian      *)
(* symbols followed by the first floor(0.4 L) global symbols, one call per  *)
(* symbol, and at most L of them.                                           *)
C12_SixtyFortySplit ==
  \A x \in Exchanges :
    MissedBothMarkets(x) =>
      /\ SymbolsOf(x.tasks) =
           FirstN(INDIAN_SYMBOLS, (6 * x.limit + 9) \div 10)
             \o FirstN(GLOBAL_SYMBOLS, (4 * x.limit) \div 10)
      /\ Len(x.tasks) <= x.limit

\* a ticker response computed from resolve calls, not served from the cache
FreshTicker(x) ==
  /\ x.n > 0
  /\ x.handler = "ticker"
  /\ x.status = 200
  /\ ~x.fromCache

\* quote a may stand before quote b in the ticker
MayPrecede(a, b, open) ==
  IF open /\ a.currency # b.currency
    THEN a.currency = "INR"
    ELSE Abs(a.changePercent) >= Abs(b.changePercent)

C14_SummaryMatchesData ==
  FreshTicker(lastResp) =>
    LET data    == lastResp.body.data
        summary == lastResp.body.summary
    IN  /\ summary.total = Len(data)
        /\ summary.indian + summary.global = summary.total
        /\ summary.mockData
             = Cardinality({ i \in DOMAIN data : "mock" \in DOMAIN data[i] /\ data[i].mock = TRUE })
        /\ Range(summary.sources) = { data[i].source : i \in DOMAIN data }
        /\ Cardinality(Range(summary.sources)) = Len(summary.sources)
        /\ summary.errors
             = Cardinality({ k \in DOMAIN lastResp.tasks : lastResp.tasks[k].result = NoQuote })

\* a fresh response with Indian and global quotes, a synthetic and a live one
C14_Witness ==
  /\ FreshTicker(lastResp)
  /\ lastResp.body.summary.indian > 0
  /\ lastResp.body.summary.global > 0
  /\ lastResp.body.summary.mockData > 0
  /\ lastResp.body.summary.mockData < lastResp.body.summary.total
  /\ Len(lastResp.body.summary.sources) > 1

\* the symbols an aggregation request selects: server.js 94, 281, 298
Selected(handler, limit) ==
  CASE handler = "indian" -> Slice0(INDIAN_SYMBOLS, limit)
    [] handler = "global" -> Slice0(GLOBAL_SYMBOLS, limit)
    [] handler = "ticker" -> Slice0(INDIAN_SYMBOLS, CeilSixTenths(limit))
                               \o Slice0(GLOBAL_SYMBOLS, FloorFourTenths(limit))

\* a resolve call that has been started: it waits for an upstream request or
\* has returned
IsStarted(task) == task.st \in {"await", "done"}

\* an aggregation handler that missed the cache and waits for its resolve calls
Waiting(r) == r.handler \in {"indian", "global", "ticker"}

\* C15: an aggregation handler that missed the cache has, whenever it waits,
\* started the resolution of every symbol it selected; as long as one of these
\* resolutions has not settled the handler has sent no response and the cache
\* holds no entry under its key, and the step that writes the entry and sends the response
\* is one in which every resolution of the request has settled.
C15_FanOutThenJoin ==
  [][ /\ \A i \in DOMAIN reqs' :
           Waiting(reqs'[i]) =>
             /\ SymbolsOf(reqs'[i].tasks) = Selected(reqs'[i].handler, reqs'[i].limit)
             /\ \A k \in DOMAIN reqs'[i].tasks : IsStarted(reqs'[i].tasks[k])
             /\ lastResp'.n # reqs'[i].n
             /\ ~MapHas(cache', reqs'[i].key)
      /\ (nsets' # nsets /\ lastResp'.handler \in {"indian", "global", "ticker"})
           => /\ lastResp'.n # lastResp.n
              /\ \A k \in DOMAIN lastResp'.tasks : lastResp'.tasks[k].st = "done"
              /\ SymbolsOf(lastResp'.tasks) = Selected(lastResp'.handler, lastResp'.limit)
    ]_vars

\* a waiting request with several resolutions, of which one has settled after
\* its upstream request and another has not
C15_Witness ==
  \E i \in DOMAIN reqs :
       /\ reqs[i].handler = "ticker"
       /\ \E k, l \in DOMAIN reqs[i].tasks :
            /\ reqs[i].tasks[k].st = "done" /\ reqs[i].tasks[k].http # << >>
            /\ reqs[i].tasks[l].st = "await"

\* a response of a route that resolves quotes
FromResolvingRoute(x) ==
  /\ x.n > 0
  /\ x.handler \in {"indian", "global", "ticker", "detail"}

\* every adapter call made for the response failed
EveryAdapterFailed(x) ==
  /\ x.tasks # << >>
  /\ \A k \in DOMAIN x.tasks :
       \A c \in DOMAIN x.tasks[k].calls : x.tasks[k].calls[c].out = "failed"

\* the symbols of the quotes a response carries
Carried(x) ==
  IF x.handler = "detail" THEN {x.body.symbol}
  ELSE { x.body.data[i].symbol : i \in DOMAIN x.body.data }

\* C17: whatever adapter calls failed or timed out, the response of the ticker,
\* of the Indian and the global route and of the detail route has no 4xx or 5xx
\* status, and a response for which symbols were resolved has status 200 and
\* carries a quote of every one of them.
C17_AdapterFailuresStillSucceed ==
  FromResolvingRoute(lastResp) =>
    /\ lastResp.status < 400
    /\ lastResp.tasks # << >> =>
         /\ lastResp.status = 200
         /\ Carried(lastResp) = Range(SymbolsOf(lastResp.tasks))

\* a ticker response after every adapter of a chain of several failed
C17_Witness ==
  /\ FromResolvingRoute(lastResp)
  /\ lastResp.handler = "ticker"
  /\ EveryAdapterFailed(lastResp)
  /\ \E k \in DOMAIN lastResp.tasks : Len(lastResp.tasks[k].calls) >= 3
  /\ lastResp.status = 200

\* a request whose limit has no number in it or whose market filter names
\* neither market
Malformed(q) ==
  \/ q.limit # Absent /\ ParseInt(q.limit) = NaN
  \/ q.route = "search" /\ q.market \notin {"", "indian", "global"}

\* C18: a request with a non-numeric limit or an unknown market filter is
\* answered with a 4xx status, no resolve call is made for it and nothing is
\* written to the cache.
C18_MalformedRejected ==
  (lastResp.n > 0 /\ Malformed(lastResp.q)) =>
    /\ lastResp.status >= 400 /\ lastResp.status < 500
    /\ lastResp.tasks = << >>
    /\ lastResp.cachedAt < 0
    /\ ~MapHas(cache, lastResp.key)

\* no provider credential is set in the environment
NoCredentials == [FMP |-> "", TWELVE |-> "", ALPHA |-> "", POLYGON |-> ""]

\* the source tags of the generators of the Indian chain
SyntheticTags == {"Enhanced_Mock_Data", "Mock_Data_Fallback"}

\* C19: with every provider credential absent the detail lookup of RELIANCE
\* returns a quote that has mock = true and the synthetic source tag, and that
\* no adapter produced.  (The quotes of the model carry no price; the price
\* range of the claim is not needed to tell the claim from the code.)
C19_NoCredentialsGiveSynthetic ==
  ( /\ lastResp.n > 0
    /\ lastResp.q = GetDetail("RELIANCE", "")
    /\ ~lastResp.fromCache
    /\ env = NoCredentials ) =>
      /\ lastResp.status = 200
      /\ "mock" \in DOMAIN lastResp.body /\ lastResp.body.mock = TRUE
      /\ lastResp.body.source \in SyntheticTags
      /\ lastResp.tasks[1].produced = << >>

\* the resolve call of request n waits for an upstream request
Resolving(n) ==
  \E i \in DOMAIN reqs : reqs[i].n = n /\ \E k \in DOMAIN reqs[i].tasks :
    reqs[i].tasks[k].st = "await"

\* the resolve call of request n has returned a Quote to its handler
Returned(n) ==
  /\ lastResp.n = n
  /\ \A k \in DOMAIN lastResp.tasks :
       /\ lastResp.tasks[k].st = "done"
       /\ IsQuote(lastResp.tasks[k].result)

\* the adapters a resolve call has invoked are the first of its trial sequence,
\* each invoked after the one before it failed; a call that has returned ends
\* with the adapter that succeeded or, with all failed, with the trial sequence
ChainProceeds(task) ==
  /\ Len(task.calls) <= Len(task.providers)
  /\ \A c \in DOMAIN task.calls :
       /\ task.calls[c].name = task.providers[c]
       /\ c < Len(task.calls) => task.calls[c].out = "failed"
  /\ task.st = "await" =>
       /\ task.calls # << >>
       /\ task.calls[Len(task.calls)].out = "pending"
  /\ task.st = "done" =>
       \/ /\ task.calls # << >>
          /\ task.calls[Len(task.calls)].out = "ok"
       \/ /\ Len(task.calls) = Len(task.providers)
          /\ \A c \in DOMAIN task.calls : task.calls[c].out = "failed"
          /\ task.produced = << >>
          /\ IsQuote(task.result)

\* C20: with every upstream request settling (by answer, error or timeout), a
\* resolve call that waits eventually returns a Quote; and a failed or timed
\* out adapter call is followed by the call of the next adapter of the trial
\* sequence or, after the last, by the generated quote.
C20_ResolveReturns ==
  /\ \A n \in 1..ResolveRequests : Resolving(n) ~> Returned(n)
  /\ [](\A task \in AllTasks : ChainProceeds(task))

\* a resolve call that returned the generated quote after several adapters failed
C20_Witness ==
  /\ lastResp.n > 0
  /\ lastResp.handler = "detail"
  /\ ~lastResp.fromCache
  /\ lastResp.tasks[1].st = "done"
  /\ Len(lastResp.tasks[1].calls) >= 2
  /\ \A c \in DOMAIN lastResp.tasks[1].calls : lastResp.tasks[1].calls[c].out = "failed"
  /\ IsQuote(lastResp.tasks[1].result)

\* the cache keys the requests of the run have used
UsedKeys ==
  ({ reqs[i].key : i \in DOMAIN reqs } \cup {lastResp.key}) \ {""}

\* the entries the Map holds under a key
EntriesOf(c, key) == { i \in DOMAIN c : c[i].key = key }

\* a response body with everything its handler puts in it
CompleteBody(body) ==
  /\ DOMAIN body = {"summary", "data"}
  /\ body.summary.total = Len(body.data)

\* C21: with requests overlapping on one cache key, every set leaves exactly
\* one entry for the key, holding the complete response of the request that
\* made it, so that after the last set the entry is that of the request whose
\* set ran last; an entry changes only by a set of its key; what a get returns
\* is the complete data of an entry; and the cache never exceeds its ceiling.
C21_LastWriteWins ==
  [][ /\ nsets' # nsets =>
           /\ Cardinality(EntriesOf(cache', lastResp'.key)) = 1
           /\ cache'[MapIndex(cache', lastResp'.key)].data = lastResp'.body
           /\ cache'[MapIndex(cache', lastResp'.key)].timestamp = now
           /\ CompleteBody(lastResp'.body)
           /\ AllDone(lastResp'.tasks)
      /\ \A key \in UsedKeys :
           (MapHas(cache, key) /\ MapHas(cache', key)
              /\ ~(nsets' # nsets /\ lastResp'.key = key))
             => cache'[MapIndex(cache', key)] = cache[MapIndex(cache, key)]
      /\ (nreq' # nreq /\ lastResp'.fromCache) =>
           /\ lastResp'.read = cache[MapIndex(cache, lastResp'.key)].data
           /\ CompleteBody(lastResp'.read)
      /\ Len(cache') <= CACHE_MAX_ENTRIES
    ]_vars

\* two requests with the same key overlapped and both set it: the first to
\* arrive was the last to finish, and the second set added no entry
C21_Witness ==
  /\ reqs = << >>
  /\ nreq = 2
  /\ nsets = 2
  /\ lastResp.n = 1
  /\ ~lastResp.fromCache
  /\ evicted.gone = {}
  /\ Len(cache) = CACHE_MAX_ENTRIES
  /\ cache[MapIndex(cache, lastResp.key)].data = lastResp.body

\* the lifetime of the entries a route writes: server.js 141, 227, 359, 418, 484
LifetimeOf(handler) ==
  IF handler = "search" THEN LONG_CACHE_DURATION ELSE CACHE_DURATION

\* a step in which a request is answered from the cache
ServedFromCache == nreq' # nreq /\ lastResp'.fromCache

\* C22: a response served from the cache was written less than 60 s before
\* on the ticker, market and detail routes and less than 300 s before on the
\* search route, and the entry it comes from carries the lifetime of its route.
C22_ServedWithinLifetime ==
  [][ ServedFromCache =>
        LET e == cache[MapIndex(cache, lastResp'.key)]
        IN  /\ e.ttl = LifetimeOf(lastResp'.handler)
            /\ now - e.timestamp < LifetimeOf(lastResp'.handler)
            /\ lastResp'.read = e.data
    ]_vars

\* a search result served from the cache 60 s or more after it was written
C22_Witness ==
  /\ lastResp.fromCache
  /\ lastResp.handler = "search"
  /\ MapHas(cache, lastResp.key)
  /\ lastResp.sentAt - WrittenAt(cache, lastResp.key) >= CACHE_DURATION
  /\ lastResp.sentAt - WrittenAt(cache, lastResp.key) < LONG_CACHE_DURATION

\* text contains q when the case of the letters is ignored
ContainsIgnoringCase(text, q) ==
  \E i \in 1..(Len(text) - Len(q) + 1) :
    \A k \in 1..Len(q) : LowerChar(text[i + k - 1]) = LowerChar(q[k])

\* the positions of the symbols of a list that match the query
MatchingIn(list, q) ==
  { i \in DOMAIN list :
      \/ ContainsIgnoringCase(SymbolText(list[i]), q)
      \/ ContainsIgnoringCase(getCompanyName(list[i]), q) }

ListOf(m) == IF m = "indian" THEN INDIAN_SYMBOLS ELSE GLOBAL_SYMBOLS

\* a response of the search route to a request that names a market
FilteredSearch(x) ==
  /\ x.n > 0
  /\ x.handler = "search"
  /\ x.q.market \in {"indian", "global"}

ParsingAdapters == {"fetchFMPIndianStock", "fetchAlphaVantageStock", "fetchTwelveDataStock"}

\* a body that carries no quote: it is empty, it reports an error (an unknown
\* symbol), or the row or quote in it has no price
CarriesNoQuote(fn, body) ==
  CASE fn = "fetchFMPIndianStock" ->
         Len(body) = 0 \/ "price" \notin DOMAIN body[1]
    [] fn = "fetchAlphaVantageStock" ->
         \/ "Global Quote" \notin DOMAIN body
         \/ "05. price" \notin DOMAIN body["Global Quote"]
    [] fn = "fetchTwelveDataStock" ->
         \/ DOMAIN body = {}
         \/ "status" \in DOMAIN body
         \/ "close" \notin DOMAIN body
         \/ body["close"].k # "numstr"
    [] OTHER -> FALSE

\* C24: an adapter called on a body that is empty, malformed or reports an
\* unknown symbol throws: it returns no quote.
C24_BadPayloadThrows ==
  probe.fn \in ParsingAdapters /\ CarriesNoQuote(probe.fn, probe.body)
    => probe.out.thrown

QuoteFields ==
  { "symbol", "name", "sector", "exchange", "currency", "price", "change",
    "changePercent", "high", "low", "previousClose", "volume", "marketCap",
    "marketOpen", "timestamp", "source" }

\* the call kept in probe returned a quote
ReturnedQuote == probe # NoProbe /\ ~probe.out.thrown

\* C25: every quote an adapter or a generator returns has a defined value for
\* each of symbol, name, sector, exchange, currency, price, change,
\* changePercent, high, low, previousClose, volume, marketCap, marketOpen,
\* timestamp and source.
C25_EveryFieldDefined ==
  ReturnedQuote =>
    \A f \in QuoteFields :
      f \in DOMAIN probe.out.quote /\ probe.out.quote[f] # Undefined

\* the response sent last has a JSON body
Answered == lastResp.status \in {200, 404, 500}

\* C26: every response of every route, a success or an error, carries a
\* timestamp field at the top level of its body.
C26_TopLevelTimestamp ==
  Answered => "timestamp" \in DOMAIN lastResp.body

\* the call kept in probe gave a synthetic quote
Synthetic ==
  ReturnedQuote /\ (probe.fn \in Generators \/ "mock" \in DOMAIN probe.out.quote)

\* the baseline price of the symbol of the call, in thousandths, and the floor
\* ratio of its market, in hundredths
Baseline ==
  CASE probe.fn = "generateEnhancedMockData" -> getIndianBasePrice("enhanced", probe.sym) * PerUnit
    [] probe.fn = "generateMockIndianData" -> getIndianBasePrice("basic", probe.sym) * PerUnit
    [] OTHER -> Lookup(GLOBAL_COMPANIES, probe.sym.base, "basePrice", 100) * PerUnit
FloorRatio ==
  IF probe.fn \in {"generateEnhancedMockData", "generateMockIndianData"} THEN 80 ELSE 85

\* C27: the price of every synthetic quote is at least the symbol's baseline
\* times the floor ratio of its market (0.8 Indian, 0.85 global), so it is
\* positive, and low <= price <= high, whatever the symbol and the random and
\* time-based draws.
C27_SyntheticFloor ==
  Synthetic =>
    LET quote == probe.out.quote
    IN  /\ IsFinite(quote.price) /\ IsFinite(quote.low) /\ IsFinite(quote.high)
        /\ quote.price.v * 100 >= Baseline * FloorRatio
        /\ quote.price.v > 0
        /\ quote.low.v <= quote.price.v
        /\ quote.price.v <= quote.high.v

\* a generated quote whose price is the floor: the draws alone would have taken
\* it below
C27_Witness ==
  /\ Synthetic
  /\ probe.out.quote.price.v * 100 = Baseline * FloorRatio
  /\ Baseline + probe.out.quote.change.v < probe.out.quote.price.v
  /\ probe.out.quote.low.v < probe.out.quote.price.v

PriceFields == {"price", "change", "changePercent", "high", "low", "previousClose"}

\* a number with at most two decimals
TwoDecimals(x) == x.v % (PerUnit \div 100) = 0

\* C28: every price-like field (price, change, changePercent, high, low,
\* previousClose) of a quote an adapter or a generator returns is a number
\* rounded to two decimals.
C28_RoundedToCents ==
  ReturnedQuote =>
    \A f \in PriceFields \cap DOMAIN probe.out.quote :
      IsFinite(probe.out.quote[f]) => TwoDecimals(probe.out.quote[f])

\* the adapters that derive changePercent from the prices of the body
DerivingAdapters == {"fetchTwelveDataStock", "fetchYahooIndianStock", "fetchPolygonIndianStock"}

\* changePercent is change / previousClose * 100 of the quote's own fields,
\* to the hundredth
PercentOfReported(quote) ==
  LET expected == RoundedPercent(quote.change, quote.previousClose)
  IN  /\ IsFinite(expected)
      /\ Abs(quote.changePercent.v - expected.v) <= PerUnit \div 100

\* C29: the changePercent of a quote from an adapter whose provider supplies
\* none is a finite number, equal to change / previousClose * 100 rounded to
\* two decimals for the change and previousClose the quote reports.
C29_DerivedPercent ==
  ReturnedQuote /\ probe.fn \in DerivingAdapters =>
    /\ IsFinite(probe.out.quote.changePercent)
    /\ PercentOfReported(probe.out.quote)

\* an aggregation response computed from resolve calls, not served from the cache
FreshAggregation(x) ==
  /\ x.n > 0
  /\ x.handler \in {"indian", "global", "ticker"}
  /\ x.status = 200
  /\ ~x.fromCache

\* the place of a quote among the promises of its request
PromiseOf(x, quote) == CHOOSE k \in DOMAIN x.tasks : x.tasks[k].result = quote

\* the sort step ranks a and b alike
RankedAlike(a, b, open) == MayPrecede(a, b, open) /\ MayPrecede(b, a, open)

(* C30: the data array of a freshly computed aggregation response is fixed  *)
(* by the quotes and the sort step alone: it is in the order of the sort,   *)
(* and quotes the sort ranks alike stand in the order of their promises     *)
(* (the order the symbols were selected in), whichever call completed first. *)
C30_OrderFromSortOnly ==
  FreshAggregation(lastResp) =>
    LET data == lastResp.body.data
        open == lastResp.handler = "ticker" /\ isIndianMarketOpen(lastResp.sentAt)
    IN  \A i, j \in DOMAIN data :
          i < j =>
            /\ MayPrecede(data[i], data[j], open)
            /\ RankedAlike(data[i], data[j], open)
                 => PromiseOf(lastResp, data[i]) < PromiseOf(lastResp, data[j])

\* two quotes ranked alike, the one that stands first resolved last
C30_Witness ==
  /\ FreshAggregation(lastResp)
  /\ \E i, j \in DOMAIN lastResp.body.data :
       /\ i < j
       /\ RankedAlike(lastResp.body.data[i], lastResp.body.data[j], FALSE)
       /\ lastResp.body.data[i].timestamp.v > lastResp.body.data[j].timestamp.v

\* requests i and j are both suspended in their resolve calls and were made
\* with the same parameters (they have the same cache key)
ResolvingTwice(i, j) ==
  /\ i # j
  /\ reqs[i].key = reqs[j].key
  /\ \E k \in DOMAIN reqs[i].tasks : \E l \in DOMAIN reqs[j].tasks :
       reqs[i].tasks[k].symbol = reqs[j].tasks[l].symbol

\* C31: within one lifetime of a cache entry the resolver is called at most
\* once per selected symbol for given request parameters, also when a second
\* identical request arrives while the first still awaits its resolve calls.
C31_OneResolvePerWindow ==
  \A i, j \in DOMAIN reqs : ~ResolvingTwice(i, j)

\* the parameters of a search request: its query in lower case and its filter
SearchPair(q) == << toLowerCase(q.query), q.market >>

\* C32: a search request answered from the cache is answered from an entry
\* written by a request with the same lower-cased query and the same market
\* filter: requests that differ in either never share a cache key.
C32_SearchKeysApart ==
  (lastResp.fromCache /\ lastResp.handler = "search")
    => SearchPair(writer[lastResp.key]) = SearchPair(lastResp.q)

\* the implementations have been asked at probe.at
ClockChecked == probe.fn = "isIndianMarketOpen"

\* Monday to Friday, 09:15 to 15:30 IST, both ends included
WithinMarketHours(t) ==
  LET m == IstMinuteOfWeek(t)
      day == m \div MinutesPerDay
      time == m % MinutesPerDay
  IN  /\ day \in 1..5
      /\ 9 * 60 + 15 <= time
      /\ time <= 15 * 60 + 30

\* C33: the Indian market is reported open exactly from Monday to Friday
\* between 09:15 and 15:30 IST, and the server's isIndianMarketOpen, those of
\* the two revisions of the Indian-markets module and
\* StockDataService.isMarketOpen agree at every minute of the week.
C33_ClocksAgree ==
  ClockChecked =>
    /\ probe.server = WithinMarketHours(probe.at)
    /\ probe.enhanced = probe.server
    /\ probe.basic = probe.server
    /\ probe.service = probe.server

\* the entries stand in the Map in the order in which their keys were inserted
InInsertionOrder ==
  \A i \in 1..(Len(cache) - 1) : firstIn[cache[i].key] < firstIn[cache[i + 1].key]

\* the last exchange has written its response to the cache
JustSet == lastResp.status = 200 /\ ~lastResp.fromCache /\ lastResp.sentAt = now

\* C34: eviction follows the order in which the keys were first inserted.  A
\* set on a key already present replaces its payload and timestamp and leaves
\* its place in that order, so an overflow removes the key inserted first even
\* when it is the entry refreshed last.
C34_EvictionByFirstInsertion ==
  /\ InInsertionOrder
  /\ \A g \in evicted.gone : \A i \in DOMAIN cache : firstIn[g] < firstIn[cache[i].key]
  /\ JustSet /\ MapHas(cache, lastResp.key) =>
       LET e == cache[MapIndex(cache, lastResp.key)]
       IN  e.data = lastResp.body /\ e.timestamp = lastResp.cachedAt

\* the oldest entry was set again in place, the cache then filled, and the
\* overflow removed that entry although none was written later than it
C34_Witness ==
  /\ evicted.gone = {DetailKey(RefreshSymbol)}
  /\ writer[DetailKey(RefreshSymbol)] = RefreshPending.q
  /\ firstIn[DetailKey(RefreshSymbol)] < 0
  /\ Len(cache) = CACHE_MAX_ENTRIES

\* the sendMessage calls in flight and the one that returned last
SendMessageCalls ==
  { wa.calls[i] : i \in { k \in DOMAIN wa.calls : wa.calls[k].fn = "sendMessage" } }

SendMessageReturned == wa.returned.fn = "sendMessage"

\* C35: sendMessage issues at most maxRetries + 1 = 4 requests for one
\* message whatever the responses are, then resolves to a boolean; it never
\* rejects, and it issues no request after a response that was ok.
C35_BoundedSendAttempts ==
  /\ \A c \in SendMessageCalls : c.attempts <= maxRetries + 1 /\ c.afterOk = 0
  /\ SendMessageReturned =>
       /\ wa.returned.attempts <= maxRetries + 1
       /\ ~wa.returned.rejected
       /\ wa.returned.value.k = "bool"
       /\ wa.returned.afterOk = 0

\* the sends through sendAlert that succeeded for the message id
DeliveriesOf(id) == { k \in DOMAIN wa.delivered : wa.delivered[k].id = id }

\* C36: through sendAlert an alert, identified by its symbol, type and time,
\* is sent successfully at most once, also when calls for it overlap.
C36_AlertSentOnce ==
  \A k \in DOMAIN wa.delivered : Cardinality(DeliveriesOf(wa.delivered[k].id)) <= 1

\* the successful sends to the number of delivery k in the minute that ends with it
WithinMinuteBefore(k) ==
  { m \in DOMAIN wa.delivered :
      /\ wa.delivered[m].phone = wa.delivered[k].phone
      /\ wa.delivered[m].at <= wa.delivered[k].at
      /\ wa.delivered[m].at > wa.delivered[k].at - 60 * 1000 }

\* C38: to one phone number no more than rateLimitPerMinute = 30 messages are
\* sent successfully through sendAlert in any window of 60 seconds, however
\* the calls interleave.
C38_RateLimitHolds ==
  \A k \in DOMAIN wa.delivered : Cardinality(WithinMinuteBefore(k)) <= rateLimitPerMinute

\* sendBulkAlerts has returned its results
BulkDone == wa.bulk.st = "done"

\* the service was initialized, no send failed and no rate limit was reached
\* while the results were collected
AllSendsWent ==
  \A k \in DOMAIN wa.bulk.reasons :
    wa.bulk.reasons[k] \notin {"uninitialized", "rateLimit", "failed"}

\* C37: sendBulkAlerts delivers every alert to every phone number: when the
\* service is initialized, every send succeeds and no rate limit is reached,
\* the results hold every pair of a phone number and an alert with
\* success = true.
C37_BulkDeliversAll ==
  BulkDone /\ AllSendsWent =>
    /\ \A i \in DOMAIN wa.bulk.phoneNumbers : \A j \in DOMAIN wa.bulk.alerts :
         \E k \in DOMAIN wa.bulk.results :
           /\ wa.bulk.results[k].phoneNumber = wa.bulk.phoneNumbers[i]
           /\ wa.bulk.results[k].alert = wa.bulk.alerts[j].id
    /\ \A k \in DOMAIN wa.bulk.results : wa.bulk.results[k].success = Bool(TRUE)

\* C39: the cache of StockDataService holds no more than maxCacheSize = 1000
\* entries once setCacheItem has returned, whatever quotes and indices are
\* fetched.
C39_CacheWithinMaxSize ==
  /\ sds.lastSize <= maxCacheSize
  /\ Len(sds.cache) <= maxCacheSize

\* the getStockQuote calls in flight
QuoteCallsInFlight ==
  { sds.calls[i] : i \in { k \in DOMAIN sds.calls : sds.calls[k].fn = "getStockQuote" } }

\* C40: a call of getStockQuote issues at most two upstream requests, the
\* second to BSE after the request to NSE failed, never calls itself more
\* than once, and resolves to a quote or to null: it never rejects, not even
\* before initialize has run.
C40_QuoteOrNull ==
  /\ \A c \in QuoteCallsInFlight :
       /\ c.requests <= 2 /\ c.depth <= 1
       /\ c.requests = 2 => c.source = "bse" /\ c.depth = 1
  /\ sds.settled.fn = "getStockQuote" =>
       /\ sds.settled.requests <= 2 /\ sds.settled.depth <= 1
       /\ sds.settled.requests = 2 => sds.settled.source = "bse" /\ sds.settled.depth = 1
       /\ sds.settled.outcome \in {"quote", "null"}

====
